---------------------------- MODULE Spec2Model ----------------------------
(***************************************************************************)
(* Citation integrity of the publisher pipeline.                           *)
(*                                                                         *)
(* A text is a sequence of one-character strings, so that the regular      *)
(* expressions of crew/workflow.py are modelled by what they match,        *)
(* character by character.                                                 *)
(***************************************************************************)
EXTENDS Integers, Sequences, FiniteSets, TLC

(***************************************************************************)
(* Bounds of the model.                                                    *)
(***************************************************************************)
\* longest catalog handed to run_generation_with_crew
MaxSources == 3
\* number of pieces an edited text is put together from
MaxPieces == 3
\* number of lines of a document handed to extract_claims
MaxLines == 4
\* number of calls of ledger.py made on the database
MaxCalls == 2
\* the generations a project holds at most
MaxGenerations == 2

(***************************************************************************)
(* Characters.                                                             *)
(***************************************************************************)
Digits == {"0", "1", "2", "3", "4", "5", "6", "7", "8", "9"}

\* what str.strip() removes and what \s matches
Whitespace == {" ", "\n", "\t", "\r"}

\* what \w matches, among the characters the model writes
WordChars == Digits \cup {"S", "a", "x", "_"}

Range(s) == { s[i] : i \in 1..Len(s) }

RECURSIVE Concat(_)
Concat(ps) == IF ps = <<>> THEN <<>> ELSE Head(ps) \o Concat(Tail(ps))

\* every text made of at most n pieces
TextsOf(pieces, n) ==
    { Concat(ps) : ps \in UNION { [1..m -> pieces] : m \in 0..n } }

(***************************************************************************)
(* Regular expressions of crew/workflow.py.                                *)
(***************************************************************************)
\* \d* from position i: the index of the last digit of the run (i-1 if none)
RECURSIVE DigitRunEnd(_, _)
DigitRunEnd(t, i) ==
    IF i <= Len(t) /\ t[i] \in Digits THEN DigitRunEnd(t, i + 1) ELSE i - 1

\* CiteEnd with any key between "[S" and "]", not digits alone: the pattern
\* r"\[S([^\[\]]*)\]"
CiteEndAnyKey(t, i) ==
    IF i + 2 <= Len(t) /\ t[i] = "[" /\ t[i + 1] = "S"
    THEN LET js == { j \in (i + 2)..Len(t) : t[j] \in {"[", "]"} }
         IN  IF js = {} THEN 0
             ELSE LET j == CHOOSE k \in js : \A l \in js : k <= l
                  IN  IF t[j] = "]" THEN j ELSE 0
    ELSE 0

\* r"\[S(\d+)\]" matched at position i: the index of its "]", 0 if no match
CiteEnd(t, i) ==
    IF i + 3 <= Len(t) /\ t[i] = "[" /\ t[i + 1] = "S"
    THEN LET e == DigitRunEnd(t, i + 2)
         IN  IF e >= i + 2 /\ e + 1 <= Len(t) /\ t[e + 1] = "]" THEN e + 1 ELSE 0
    ELSE 0

\* re.search(r"\[S\d+\]", p)
HasCitation(p) == \E i \in 1..Len(p) : CiteEnd(p, i) # 0

\* r"\[S#\]" matched at position i
PlaceholderAt(t, i) ==
    /\ i + 3 <= Len(t)
    /\ t[i] = "[" /\ t[i + 1] = "S" /\ t[i + 2] = "#" /\ t[i + 3] = "]"

\* str.strip() and str.rstrip()
RECURSIVE rstrip(_)
rstrip(t) ==
    IF t # <<>> /\ t[Len(t)] \in Whitespace THEN rstrip(SubSeq(t, 1, Len(t) - 1)) ELSE t

RECURSIVE lstrip(_)
lstrip(t) == IF t # <<>> /\ Head(t) \in Whitespace THEN lstrip(Tail(t)) ELSE t

strip(t) == rstrip(lstrip(t))

(***************************************************************************)
(* _parse_selected_keys                                                    *)
(***************************************************************************)
\* \b left out of the pattern: any position will do
NoBoundary(t, i) == TRUE

\* \b just before position i
BoundaryBefore(t, i) ==
    LET prev == i > 1 /\ i - 1 <= Len(t) /\ t[i - 1] \in WordChars
        here == i <= Len(t) /\ t[i] \in WordChars
    IN  prev # here

\* r"\bS\d+\b" matched at position i: the index of its last digit, 0 if no match
KeyEnd(t, i) ==
    IF i + 1 <= Len(t) /\ t[i] = "S" /\ BoundaryBefore(t, i)
    THEN LET e == DigitRunEnd(t, i + 1)
         IN  IF e >= i + 1 /\ BoundaryBefore(t, e + 1) THEN e ELSE 0
    ELSE 0

\* re.findall(r"\bS\d+\b", text), from position i
RECURSIVE FindKeys(_, _)
FindKeys(t, i) ==
    IF i > Len(t) THEN <<>>
    ELSE LET e == KeyEnd(t, i)
         IN  IF e = 0 THEN FindKeys(t, i + 1)
             ELSE <<SubSeq(t, i, e)>> \o FindKeys(t, e + 1)

\* keep order and uniqueness
RECURSIVE Unique(_, _)
Unique(keys, seen) ==
    IF keys = <<>> THEN <<>>
    ELSE IF Head(keys) \in seen THEN Unique(Tail(keys), seen)
         ELSE <<Head(keys)>> \o Unique(Tail(keys), seen \cup {Head(keys)})

_parse_selected_keys(text) ==
    IF text = <<>> THEN <<>> ELSE Unique(FindKeys(text, 1), {})

(***************************************************************************)
(* _sanitize_citations                                                     *)
(***************************************************************************)
\* SubCitations with the key compared without its "S": the digits alone are
\* never an allowed key
RECURSIVE SubCitationsDigitsKey(_, _, _)
SubCitationsDigitsKey(t, i, allowed) ==
    IF i > Len(t) THEN <<>>
    ELSE LET e == CiteEnd(t, i)
         IN  IF e = 0 THEN <<t[i]>> \o SubCitationsDigitsKey(t, i + 1, allowed)
             ELSE LET k == SubSeq(t, i + 2, e - 1)
                  IN  (IF k \in allowed THEN SubSeq(t, i, e) ELSE <<>>)
                          \o SubCitationsDigitsKey(t, e + 1, allowed)

\* pat.sub(repl, text) from position i: one pass, left to right, over the
\* non-overlapping matches of r"\[S(\d+)\]"
RECURSIVE SubCitations(_, _, _)
SubCitations(t, i, allowed) ==
    IF i > Len(t) THEN <<>>
    ELSE LET e == CiteEnd(t, i)
         IN  IF e = 0 THEN <<t[i]>> \o SubCitations(t, i + 1, allowed)
             ELSE LET k == <<"S">> \o SubSeq(t, i + 2, e - 1)
                  IN  (IF k \in allowed THEN SubSeq(t, i, e) ELSE <<>>)
                          \o SubCitations(t, e + 1, allowed)

_sanitize_citations(text, allowed_keys) ==
    IF text = <<>> THEN text ELSE SubCitations(text, 1, Range(allowed_keys))

(***************************************************************************)
(* re.sub(r"\[S#\]", f"[{first}]", text)                                   *)
(***************************************************************************)
\* SubPlaceholder that rewrites the first placeholder only (count=1)
SubPlaceholderOnce(t, i, first) ==
    LET at == { j \in i..Len(t) : PlaceholderAt(t, j) }
    IN  IF at = {} THEN SubSeq(t, i, Len(t))
        ELSE LET j == CHOOSE m \in at : \A n \in at : m <= n
             IN  SubSeq(t, i, j - 1) \o <<"[">> \o first \o <<"]">>
                     \o SubSeq(t, j + 4, Len(t))

RECURSIVE SubPlaceholder(_, _, _)
SubPlaceholder(t, i, first) ==
    IF i > Len(t) THEN <<>>
    ELSE IF PlaceholderAt(t, i)
         THEN <<"[">> \o first \o <<"]">> \o SubPlaceholder(t, i + 4, first)
         ELSE <<t[i]>> \o SubPlaceholder(t, i + 1, first)

(***************************************************************************)
(* _ensure_citation_per_paragraph                                          *)
(***************************************************************************)
\* \s* from position i: the index of the last whitespace of the run
RECURSIVE SpaceRunEnd(_, _)
SpaceRunEnd(t, i) ==
    IF i <= Len(t) /\ t[i] \in Whitespace THEN SpaceRunEnd(t, i + 1) ELSE i - 1

\* \n+ from position i: the index of the last newline of the run
RECURSIVE NewlineRunEnd(_, _)
NewlineRunEnd(t, i) ==
    IF i <= Len(t) /\ t[i] = "\n" THEN NewlineRunEnd(t, i + 1) ELSE i - 1

\* r"\n\s*\n+" matched at position i: the index of its last character, 0 if no
\* match.  \s* is greedy and gives back characters until a newline follows.
SeparatorEnd(t, i) ==
    IF i <= Len(t) /\ t[i] = "\n"
    THEN LET e  == SpaceRunEnd(t, i + 1)
             js == { j \in (i + 1)..e : t[j] = "\n" }
         IN  IF js = {} THEN 0
             ELSE NewlineRunEnd(t, CHOOSE j \in js : \A k \in js : k <= j)
    ELSE 0

\* re.split(r"\n\s*\n+", t): i is the position read, from the start of the piece
RECURSIVE SplitFrom(_, _, _)
SplitFrom(t, i, from) ==
    IF i > Len(t) THEN <<SubSeq(t, from, Len(t))>>
    ELSE LET e == SeparatorEnd(t, i)
         IN  IF e = 0 THEN SplitFrom(t, i + 1, from)
             ELSE <<SubSeq(t, from, i - 1)>> \o SplitFrom(t, e + 1, e + 1)

SplitParagraphs(t) == SplitFrom(t, 1, 1)

\* "\n\n".join(fixed)
RECURSIVE JoinParagraphs(_)
JoinParagraphs(ps) ==
    IF ps = <<>> THEN <<>>
    ELSE IF Len(ps) = 1 THEN ps[1]
         ELSE ps[1] \o <<"\n", "\n">> \o JoinParagraphs(Tail(ps))

Cite(k) == <<"[">> \o k \o <<"]">>

_ensure_citation_per_paragraph(text, selected_keys) ==
    IF text = <<>> \/ selected_keys = <<>> THEN text
    ELSE LET first == selected_keys[1]
             paras == SplitParagraphs(strip(text))
             fixed == [ n \in 1..Len(paras) |->
                          IF HasCitation(paras[n]) THEN paras[n]
                          ELSE rstrip(paras[n]) \o <<" ">> \o Cite(first) ]
         IN  JoinParagraphs(fixed)

(***************************************************************************)
(* run_generation_with_crew: sanitize and return                           *)
(***************************************************************************)
\* lines 228-246, from the stripped editor output, the stripped adapter output
\* and the selected keys
Enforce(final_text, adapted_text, selected_keys) ==
    LET f1 == _sanitize_citations(final_text, selected_keys)
        a1 == _sanitize_citations(adapted_text, selected_keys)
        f2 == IF selected_keys # <<>> THEN SubPlaceholder(f1, 1, selected_keys[1]) ELSE f1
        a2 == IF selected_keys # <<>> THEN SubPlaceholder(a1, 1, selected_keys[1]) ELSE a1
        f3 == _ensure_citation_per_paragraph(f2, selected_keys)
        a3 == _ensure_citation_per_paragraph(a2, selected_keys)
        f4 == IF selected_keys # <<>> /\ ~HasCitation(f3)
              THEN rstrip(f3) \o <<" ">> \o Cite(selected_keys[1])
              ELSE f3
    IN  IF f4 # <<>> THEN f4 ELSE a3

(***************************************************************************)
(* Inputs.                                                                 *)
(***************************************************************************)
DigitOf == <<"1", "2", "3", "4", "5", "6", "7", "8", "9">>

\* tools.py: key=f"S{len(picked)+1}"
KeyNo(i) == <<"S", DigitOf[i]>>

\* a record whose key is missing, None or "": s.get("key") is falsy
NoKey == <<>>

\* catalogs of at most MaxSources records, keyed S1, S2, ... in order, where
\* one record (keyless = its position, 0 for none) may lack its key
Catalogs ==
    UNION { { [ i \in 1..n |-> [key |-> IF i = keyless THEN NoKey ELSE KeyNo(i)] ]
                : keyless \in 0..n } : n \in 0..MaxSources }

\* what the researcher may answer: nothing, prose without a key, keys of the
\* catalog, a repeated key, a key that is in no catalog
Proposals ==
    { <<>>,
      <<"x">>,
      <<"S", "1">>,
      <<"S", "2", ",", "S", "1", ",", "S", "2">>,
      <<"S", "9">> }

\* what the adapter may write
AdaptedTexts ==
    { <<" ", "a", " ", "[", "S", "1", "]", "\n">>,
      <<"a", " ", "[", "S", "9", "]">> }

\* what the editor's text is put together from
EditPieces ==
    { <<"a", " ">>, <<"\n", "\n">>, <<"[", "S", "9", "]">>,
      <<"[", "S", "#", "]">>, <<"[", "S">>, <<"1", "]">> }

EditedTexts == TextsOf(EditPieces, MaxPieces)

(***************************************************************************)
(* ledger.py: _iter_paragraphs and extract_claims                          *)
(***************************************************************************)
\* Python's None, and a value that is not None
None == <<>>

Some(v) == <<v>>

\* str.splitlines(): the lines of t, cut at "\n", "\r" and "\r\n"; the text
\* after the last line break is a line only if it is not empty
RECURSIVE splitlines(_)
splitlines(t) ==
    LET brk == { i \in 1..Len(t) : t[i] \in {"\n", "\r"} }
    IN  IF t = <<>> THEN <<>>
        ELSE IF brk = {} THEN <<t>>
        ELSE LET i    == CHOOSE j \in brk : \A k \in brk : j <= k
                 next == IF t[i] = "\r" /\ i < Len(t) /\ t[i + 1] = "\n"
                         THEN i + 2 ELSE i + 1
             IN  <<SubSeq(t, 1, i - 1)>> \o splitlines(SubSeq(t, next, Len(t)))

\* H1.match(ln), H1 = r"^#\s+(.*)": None, or the group (.*) of the match.  \s+
\* takes the whole run of whitespace after the "#".
H1(ln) ==
    IF Len(ln) >= 2 /\ ln[1] = "#" /\ ln[2] \in Whitespace
    THEN Some(SubSeq(ln, SpaceRunEnd(ln, 2) + 1, Len(ln)))
    ELSE None

\* H2.match(ln), H2 = r"^##\s+(.*)"
H2(ln) ==
    IF Len(ln) >= 3 /\ ln[1] = "#" /\ ln[2] = "#" /\ ln[3] \in Whitespace
    THEN Some(SubSeq(ln, SpaceRunEnd(ln, 3) + 1, Len(ln)))
    ELSE None

\* "ROOT"
ROOT == <<"R", "O", "O", "T">>

\* " > ".join([p for p in [h1, h2] if p]) or "ROOT": a title that is None or
\* empty is left out
SectionPath(h1, h2) ==
    LET parts == SelectSeq(<<h1, h2>>, LAMBDA p : p # None /\ p[1] # <<>>)
    IN  IF parts = <<>> THEN ROOT
        ELSE IF Len(parts) = 1 THEN parts[1][1]
        ELSE parts[1][1] \o <<" ", ">", " ">> \o parts[2][1]

\* "\n".join(buf)
RECURSIVE JoinBuf(_)
JoinBuf(buf) ==
    IF buf = <<>> THEN <<>>
    ELSE IF Len(buf) = 1 THEN buf[1]
         ELSE buf[1] \o <<"\n">> \o JoinBuf(Tail(buf))

\* flush(): what it yields, with the titles h1 and h2 and the buffer buf
flush(h1, h2, buf) ==
    IF buf = <<>> THEN <<>>
    ELSE LET para == strip(JoinBuf(buf))
         IN  IF para = <<>> THEN <<>>
             ELSE <<[section |-> SectionPath(h1, h2), para |-> para]>>

\* the titles after a level-1 heading whose group is g, the level-2 title
\* being h2, with the level-2 title kept
AfterH1KeepsH2(g, h2) == [h1 |-> Some(strip(g)), h2 |-> h2]

\* h1, h2 = m1.group(1).strip(), None
AfterH1(g, h2) == [h1 |-> Some(strip(g)), h2 |-> None]

\* the loop of _iter_paragraphs from line i on, and the flush after it
RECURSIVE IterFrom(_, _, _, _, _)
IterFrom(lines, i, h1, h2, buf) ==
    IF i > Len(lines) THEN flush(h1, h2, buf)
    ELSE LET ln == lines[i]
             m1 == H1(ln)
             m2 == H2(ln)
         IN  IF m1 # None
             THEN LET h == AfterH1(m1[1], h2)
                  IN  flush(h1, h2, buf) \o IterFrom(lines, i + 1, h.h1, h.h2, <<>>)
             ELSE IF m2 # None
             THEN flush(h1, h2, buf)
                      \o IterFrom(lines, i + 1, h1, Some(strip(m2[1])), <<>>)
             ELSE IF strip(ln) = <<>>
             THEN flush(h1, h2, buf) \o IterFrom(lines, i + 1, h1, h2, <<>>)
             ELSE IterFrom(lines, i + 1, h1, h2, Append(buf, ln))

_iter_paragraphs(md_text) == IterFrom(splitlines(md_text), 1, None, None, <<>>)

\* SRC_KEYS = r"\[(S\d+)\]" matched at position i: the index of its "]", 0 if
\* no match
SrcKeyEnd(t, i) ==
    IF i + 3 <= Len(t) /\ t[i] = "[" /\ t[i + 1] = "S"
    THEN LET e == DigitRunEnd(t, i + 2)
         IN  IF e >= i + 2 /\ e + 1 <= Len(t) /\ t[e + 1] = "]" THEN e + 1 ELSE 0
    ELSE 0

\* SRC_KEYS.findall(para) from position i on: the groups, in order
RECURSIVE SrcKeysFrom(_, _)
SrcKeysFrom(t, i) ==
    IF i > Len(t) THEN <<>>
    ELSE LET e == SrcKeyEnd(t, i)
         IN  IF e = 0 THEN SrcKeysFrom(t, i + 1)
             ELSE <<SubSeq(t, i + 1, e - 1)>> \o SrcKeysFrom(t, e + 1)

\* the keys of a paragraph, every occurrence kept
ParagraphKeysAll(para) == SrcKeysFrom(para, 1)

\* list(dict.fromkeys(SRC_KEYS.findall(para)))
ParagraphKeys(para) == Unique(SrcKeysFrom(para, 1), {})

\* the loop of extract_claims over the paragraphs ps
RECURSIVE ClaimsOf(_)
ClaimsOf(ps) ==
    IF ps = <<>> THEN <<>>
    ELSE LET keys == ParagraphKeys(ps[1].para)
             rest == ClaimsOf(Tail(ps))
         IN  IF keys # <<>>
             THEN <<[section |-> ps[1].section, para |-> ps[1].para, keys |-> keys]>>
                      \o rest
             ELSE rest

extract_claims(md_text) == ClaimsOf(_iter_paragraphs(md_text))

(***************************************************************************)
(* ledger.py: similarity                                                   *)
(***************************************************************************)
\* re.sub(r"\s+", " ", s) from position i on
RECURSIVE CollapseFrom(_, _)
CollapseFrom(s, i) ==
    IF i > Len(s) THEN <<>>
    ELSE IF s[i] \in Whitespace
         THEN <<" ">> \o CollapseFrom(s, SpaceRunEnd(s, i) + 1)
         ELSE <<s[i]>> \o CollapseFrom(s, i + 1)

\* _norm(s), s a string or None
_norm(s) == strip(CollapseFrom(IF s = None THEN <<>> ELSE s[1], 1))

\* str.split() from position i on: the runs of characters that are not
\* whitespace
RECURSIVE SplitFromPos(_, _)
SplitFromPos(s, i) ==
    IF i > Len(s) THEN <<>>
    ELSE IF s[i] \in Whitespace THEN SplitFromPos(s, i + 1)
    ELSE LET ws == { j \in i..Len(s) : s[j] \in Whitespace }
             e  == IF ws = {} THEN Len(s)
                   ELSE (CHOOSE j \in ws : \A k \in ws : j <= k) - 1
         IN  <<SubSeq(s, i, e)>> \o SplitFromPos(s, e + 1)

\* the code points of the characters of the texts
Ord ==
    [ c \in {"\t", "\n", "\r", " ", "#", "1", "2", ">", "A", "B", "S", "T",
             "[", "]", "a", "b", "x"} |->
        CASE c = "\t" -> 9  [] c = "\n" -> 10 [] c = "\r" -> 13 [] c = " " -> 32
          [] c = "#" -> 35  [] c = "1" -> 49  [] c = "2" -> 50  [] c = ">" -> 62
          [] c = "A" -> 65  [] c = "B" -> 66  [] c = "S" -> 83  [] c = "T" -> 84
          [] c = "[" -> 91  [] c = "]" -> 93  [] c = "a" -> 97  [] c = "b" -> 98
          [] c = "x" -> 120 ]

\* a < b for strings
RECURSIVE StrLess(_, _)
StrLess(a, b) ==
    IF b = <<>> THEN FALSE
    ELSE IF a = <<>> THEN TRUE
    ELSE IF Head(a) = Head(b) THEN StrLess(Tail(a), Tail(b))
    ELSE Ord[Head(a)] < Ord[Head(b)]

\* sorted(tokens), tokens a set of strings
RECURSIVE Sorted(_)
Sorted(tokens) ==
    IF tokens = {} THEN <<>>
    ELSE LET least == CHOOSE t \in tokens : \A u \in tokens \ {t} : StrLess(t, u)
         IN  <<least>> \o Sorted(tokens \ {least})

\* " ".join(tokens)
RECURSIVE JoinTokens(_)
JoinTokens(tokens) ==
    IF tokens = <<>> THEN <<>>
    ELSE IF Len(tokens) = 1 THEN tokens[1]
         ELSE tokens[1] \o <<" ">> \o JoinTokens(Tail(tokens))

\* the length of the longest common subsequence of a and b
RECURSIVE LCS(_, _)
LCS(a, b) ==
    IF a = <<>> \/ b = <<>> THEN 0
    ELSE IF Head(a) = Head(b) THEN 1 + LCS(Tail(a), Tail(b))
    ELSE LET x == LCS(Tail(a), b)
             y == LCS(a, Tail(b))
         IN  IF x >= y THEN x ELSE y

\* rapidfuzz's Indel distance: insertions and deletions that turn a into b
Indel(a, b) == Len(a) + Len(b) - 2 * LCS(a, b)

RECURSIVE GCD(_, _)
GCD(m, n) == IF n = 0 THEN m ELSE GCD(n, m % n)

\* the number n/d, in lowest terms
Frac(n, d) == LET g == GCD(n, d) IN <<n \div g, d \div g>>

\* the larger of two such numbers
FracMax(p, q) == IF p[1] * q[2] >= q[1] * p[2] THEN p ELSE q

\* the same similarity as a percentage, the division by 100.0 left out
NormSimPercent(dist, lensum) ==
    IF lensum > 0 THEN Frac(100 * (lensum - dist), lensum) ELSE Frac(100, 1)

\* rapidfuzz's normalised similarity for a distance dist between strings of
\* total length lensum, as a part of 1: (100 - 100 * dist / lensum) / 100
NormSim(dist, lensum) == IF lensum > 0 THEN Frac(lensum - dist, lensum) ELSE Frac(1, 1)

\* fuzz.token_set_ratio(s1, s2) / 100.0
token_set_ratio(s1, s2) ==
    LET tokens_a == Range(SplitFromPos(s1, 1))
        tokens_b == Range(SplitFromPos(s2, 1))
        intersect == tokens_a \cap tokens_b
        diff_ab  == JoinTokens(Sorted(tokens_a \ tokens_b))
        diff_ba  == JoinTokens(Sorted(tokens_b \ tokens_a))
        sect_len == Len(JoinTokens(Sorted(intersect)))
        sep      == IF sect_len # 0 THEN 1 ELSE 0
        sect_ab_len == sect_len + sep + Len(diff_ab)
        sect_ba_len == sect_len + sep + Len(diff_ba)
        result   == NormSim(Indel(diff_ab, diff_ba), sect_ab_len + sect_ba_len)
        sect_ab  == NormSim(sep + Len(diff_ab), sect_len + sect_ab_len)
        sect_ba  == NormSim(sep + Len(diff_ba), sect_len + sect_ba_len)
    IN  IF tokens_a = {} \/ tokens_b = {} THEN Frac(0, 1)
        ELSE IF intersect # {} /\ (tokens_a \subseteq tokens_b \/ tokens_b \subseteq tokens_a)
             THEN Frac(1, 1)
        ELSE IF sect_len = 0 THEN result
        ELSE FracMax(result, FracMax(sect_ab, sect_ba))

\* similarity with the test of b left out
similarityAlways(a, b) == Some(token_set_ratio(_norm(Some(a)), _norm(b)))

\* similarity(a, b): None, or the score as a number between 0 and 1; b is a
\* string or None
similarity(a, b) ==
    IF b = None \/ b[1] = <<>> THEN None
    ELSE Some(token_set_ratio(_norm(Some(a)), _norm(b)))

(***************************************************************************)
(* ledger.py: load_sources_maps, the rows of a document, the schema        *)
(***************************************************************************)
\* m[k] = v
Put(m, k, v) == [ x \in DOMAIN m \cup {k} |-> IF x = k THEN v ELSE m[x] ]

\* dict.get(k), None if k is missing
Get(m, k) == IF k \in DOMAIN m THEN Some(m[k]) ELSE None

\* "Untitled"
Untitled == <<"U", "n", "t", "i", "t", "l", "e", "d">>

\* "https://doi.org/"
DoiPrefix == <<"h", "t", "t", "p", "s", ":", "/", "/", "d", "o", "i", ".", "o", "r", "g", "/">>

\* x is None or empty: "not x"
Falsy(x) == x = None \/ x[1] = <<>>

\* the apa string of the item it
Apa(it) ==
    LET title == IF Falsy(it.title) THEN Untitled ELSE it.title[1]
        head  == IF Falsy(it.year)
                 THEN title \o <<".", " ">>
                 ELSE <<"(">> \o it.year[1] \o <<")", " ">> \o title \o <<".", " ">>
    IN  IF ~Falsy(it.doi) THEN head \o DoiPrefix \o it.doi[1]
        ELSE IF ~Falsy(it.url) THEN head \o it.url[1]
        ELSE head

\* the loop of load_sources_maps over the items of data, from the maps refs
\* and abs: an item without a key is skipped, a later item of the same key
\* replaces the earlier one
RECURSIVE LoadFrom(_, _, _)
LoadFrom(data, refs, abs) ==
    IF data = <<>> THEN [references_map |-> refs, abstracts_map |-> abs]
    ELSE LET it == Head(data)
         IN  IF Falsy(it.key) THEN LoadFrom(Tail(data), refs, abs)
             ELSE LoadFrom(Tail(data),
                           Put(refs, it.key[1], Apa(it)),
                           Put(abs, it.key[1],
                               IF Falsy(it.abstract) THEN <<>> ELSE it.abstract[1]))

load_sources_maps(data) == LoadFrom(data, <<>>, <<>>)

\* the rows of one claim with only its first key
RowsOfClaimFirstKey(c, project_id, maps, now) ==
    LET ref == Get(maps.references_map, c.keys[1])
    IN  <<[project_id |-> project_id, section |-> c.section, claim_text |-> c.para,
           source_key |-> c.keys[1],
           source_citation |-> IF ref = None THEN <<>> ELSE ref[1],
           similarity_score |-> similarity(c.para, Get(maps.abstracts_map, c.keys[1])),
           created_at |-> now]>>

\* the rows of one claim (section, para, keys): one LedgerRow per key
RowsOfClaim(c, project_id, maps, now) ==
    [ i \in 1..Len(c.keys) |->
        LET key == c.keys[i]
            ref == Get(maps.references_map, key)
        IN  [project_id |-> project_id, section |-> c.section, claim_text |-> c.para,
             source_key |-> key,
             source_citation |-> IF ref = None THEN <<>> ELSE ref[1],
             similarity_score |-> similarity(c.para, Get(maps.abstracts_map, key)),
             created_at |-> now] ]

\* the rows of the claims cs, in order
RECURSIVE RowsOfClaims(_, _, _, _)
RowsOfClaims(cs, project_id, maps, now) ==
    IF cs = <<>> THEN <<>>
    ELSE RowsOfClaim(Head(cs), project_id, maps, now)
            \o RowsOfClaims(Tail(cs), project_id, maps, now)

\* the rows log_claims_from_markdown builds from the document md and the
\* sources data, at the time now
BuildRows(project_id, md, data, now) ==
    RowsOfClaims(extract_claims(md), project_id, load_sources_maps(data), now)

\* the database after DDL with the table dropped and created again
DDLRecreates(db) ==
    [table |-> TRUE, idx_project |-> TRUE, idx_section |-> TRUE, rows |-> <<>>]

\* the database after DDL: CREATE TABLE IF NOT EXISTS claim_ledger and CREATE
\* INDEX IF NOT EXISTS for the project and the section index
DDL(db) ==
    [db EXCEPT !.table = TRUE, !.idx_project = TRUE, !.idx_section = TRUE]

\* the rows of the table after a transaction that had sent the rows pending
\* is left by an exception, the rows sent being kept
AfterFaultKeepsSent(rows, pending) == rows \o pending

\* the rows of the table after a transaction that had sent the rows pending
\* is left by an exception: the connection block rolls it back
AfterFault(rows, pending) == rows

\* page_size of execute_batch
PageSize == 200

\* what happens to a run whose ledger step raised: write_artifacts_and_ledger
\* lets the exception through, _maybe_log_to_ledger catches and prints it, a
\* direct caller of ensure_schema or insert_rows sees it
AfterRaise(caller) ==
    CASE caller = "web" -> "failed"
      [] caller = "cli" -> "completed"
      [] OTHER          -> "raised"

\* the rows of the table after a transaction that appended batch is
\* committed, rows already stored being updated in place of appended
CommittedUpsert(rows, batch) ==
    LET same(r, q) == [r EXCEPT !.created_at = 0] = [q EXCEPT !.created_at = 0]
    IN  rows \o SelectSeq(batch, LAMBDA r : \A i \in 1..Len(rows) : ~same(r, rows[i]))

\* the rows of the table after a transaction that appended batch is
\* committed: INSERT INTO claim_ledger, no ON CONFLICT clause
Committed(rows, batch) == rows \o batch

\* the number of claims of the rows
CountClaims(rows) ==
    Cardinality({ <<rows[i].section, rows[i].claim_text>> : i \in 1..Len(rows) })

\* return len(rows)
ReturnValue(rows) == Len(rows)

(***************************************************************************)
(* tools.py and web/services.py: the sources of a chunk, the latest        *)
(* generations of a project, the document and the source list assembled    *)
(***************************************************************************)
\* Source(key, title, url, doi, year, oa, abstract).__dict__
Source(key, title, url, doi, year, oa, abstract) ==
    [key |-> Some(key), title |-> Some(title), url |-> Some(url), doi |-> doi,
     year |-> year, oa |-> oa, abstract |-> abstract]

\* normalize(text) of tools.py, text a string or None
normalize(text) == strip(CollapseFrom(IF text = None THEN <<>> ELSE text[1], 1))

\* the loop over the Europe PMC results: a source per result, keyed by its
\* position among the picked, until need are picked
RECURSIVE PickPmc(_, _, _)
PickPmc(items, picked, need) ==
    IF items = <<>> \/ Len(picked) >= need THEN picked
    ELSE LET it == Head(items)
         IN  PickPmc(Tail(items),
                     Append(picked,
                            Source(KeyNo(Len(picked) + 1), normalize(it.title), it.url,
                                   it.doi, it.pubYear, TRUE,
                                   Some(normalize(it.abstractText)))),
                     need)

\* the loop over the PubMed summaries: a summary without a title is passed
\* over
RECURSIVE PickPubmed(_, _, _)
PickPubmed(items, picked, need) ==
    IF items = <<>> \/ Len(picked) >= need THEN picked
    ELSE LET sm == Head(items)
         IN  IF Falsy(sm.title) THEN PickPubmed(Tail(items), picked, need)
             ELSE PickPubmed(Tail(items),
                             Append(picked,
                                    Source(KeyNo(Len(picked) + 1), normalize(sm.title),
                                           sm.url, None, None, FALSE, None)),
                             need)

\* build_sources_for_neuro(topic, need) when the searches for topic found
\* the results found.pmc and found.pubmed
build_sources_for_neuro(found, need) ==
    LET picked == PickPmc(found.pmc, <<>>, need)
    IN  IF Len(picked) >= need THEN picked ELSE PickPubmed(found.pubmed, picked, need)

\* need=3 of generate_for_chunk
Need == 3

\* the loop of latest_generation_map over the rows, newest first, from row i
\* down: the first row met of each chunk is kept
RECURSIVE LatestFrom(_, _, _)
LatestFrom(rows, i, latest) ==
    IF i = 0 THEN latest
    ELSE IF \E j \in 1..Len(latest) : latest[j].chunk_id = rows[i].chunk_id
         THEN LatestFrom(rows, i - 1, latest)
         ELSE LatestFrom(rows, i - 1, Append(latest, rows[i]))

\* latest_generation_map(project_id): the values of the dict, in its order;
\* rows are the generations of the project in the order of created_at
latest_generation_map(rows) == LatestFrom(rows, Len(rows), <<>>)

\* latest.get(ch)
LatestOf(latest, ch) ==
    IF \E j \in 1..Len(latest) : latest[j].chunk_id = ch
    THEN Some(latest[CHOOSE j \in 1..Len(latest) : latest[j].chunk_id = ch])
    ELSE None

\* "\n\n".join(parts)
RECURSIVE JoinParts(_)
JoinParts(parts) ==
    IF parts = <<>> THEN <<>>
    ELSE IF Len(parts) = 1 THEN parts[1]
         ELSE parts[1] \o <<"\n", "\n">> \o JoinParts(Tail(parts))

\* the parts of the chunks chs, in their order: the stripped text of the latest
\* generation of each chunk that has one
RECURSIVE PartsOf(_, _)
PartsOf(chs, latest) ==
    IF chs = <<>> THEN <<>>
    ELSE LET g == LatestOf(latest, Head(chs))
         IN  (IF g = None THEN <<>> ELSE <<strip(g[1].generated_text)>>)
                \o PartsOf(Tail(chs), latest)

\* "# Empty\n\n(No generated content yet.)"
EmptyDocument == <<"#", " ", "E", "m", "p", "t", "y", "\n", "\n", "(", "N", "o", " ", "g", "e", "n", "e", "r", "a", "t", "e", "d", " ", "c", "o", "n", "t", "e", "n", "t", " ", "y", "e", "t", ".", ")">>

\* final_md_text
FinalMdText(chs, latest) ==
    LET text == strip(JoinParts(PartsOf(chs, latest)))
    IN  IF text = <<>> THEN EmptyDocument ELSE text

\* the sources of the generations gs, in order: g.sources or []
RECURSIVE SourcesOf(_)
SourcesOf(gs) ==
    IF gs = <<>> THEN <<>>
    ELSE (IF Falsy(Head(gs).sources) THEN <<>> ELSE Head(gs).sources[1])
            \o SourcesOf(Tail(gs))

\* seen[s["key"]] = s, seen being the values of the dict in its order: a key
\* already there keeps its place and takes the new source
SeenPut(seen, s) ==
    IF \E j \in 1..Len(seen) : seen[j].key = s.key
    THEN [ j \in 1..Len(seen) |-> IF seen[j].key = s.key THEN s ELSE seen[j] ]
    ELSE Append(seen, s)

\* the loop that fills seen with the sources ss
RECURSIVE SeenFrom(_, _)
SeenFrom(ss, seen) ==
    IF ss = <<>> THEN seen ELSE SeenFrom(Tail(ss), SeenPut(seen, Head(ss)))

\* s["key"] raises KeyError for one of the sources ss: it has no key entry
KeyErrorIn(ss) == \E i \in 1..Len(ss) : ss[i].key = None

\* f"project::{project.id}"
LedgerProjectId(id) == <<"p", "r", "o", "j", "e", "c", "t", ":", ":">> \o id

(***************************************************************************)
(* utils/sources.py and web/app.py: linking and stripping citation tokens  *)
(***************************************************************************)
\* TAG_PATTERN.sub(repl, text) from position i: every token [S<digits>] is
\* followed by "(url)" when the mapping has a url for its key
RECURSIVE SubTags(_, _, _)
SubTags(t, i, mapping) ==
    IF i > Len(t) THEN <<>>
    ELSE LET e == CiteEnd(t, i)
         IN  IF e = 0 THEN <<t[i]>> \o SubTags(t, i + 1, mapping)
             ELSE LET url == Get(mapping, SubSeq(t, i + 1, e - 1))
                  IN  (IF Falsy(url) THEN SubSeq(t, i, e)
                       ELSE SubSeq(t, i, e) \o <<"(">> \o url[1] \o <<")">>)
                          \o SubTags(t, e + 1, mapping)

\* link_sources_in_text(text, mapping), mapping a dict from key to url
link_sources_in_text(text, mapping) ==
    IF DOMAIN mapping = {} THEN text ELSE SubTags(text, 1, mapping)

\* LINKED_PATTERN r"\[S\d+\]\([^)]+\)" matched at position i: the index of
\* its ")", 0 if no match
LinkedEnd(t, i) ==
    LET e == CiteEnd(t, i)
    IN  IF e = 0 \/ e + 1 > Len(t) THEN 0
        ELSE IF t[e + 1] # "(" THEN 0
        ELSE LET closes == { j \in (e + 2)..Len(t) : t[j] = ")" }
             IN  IF closes = {} THEN 0
                 ELSE LET c == CHOOSE j \in closes : \A k \in closes : j <= k
                      IN  IF c = e + 2 THEN 0 ELSE c

\* LINKED_PATTERN.sub("", text) from position i
RECURSIVE SubLinked(_, _)
SubLinked(t, i) ==
    IF i > Len(t) THEN <<>>
    ELSE LET e == LinkedEnd(t, i)
         IN  IF e = 0 THEN <<t[i]>> \o SubLinked(t, i + 1) ELSE SubLinked(t, e + 1)

\* PLAIN_TAG_PATTERN.sub("", text) from position i
RECURSIVE SubPlain(_, _)
SubPlain(t, i) ==
    IF i > Len(t) THEN <<>>
    ELSE LET e == CiteEnd(t, i)
         IN  IF e = 0 THEN <<t[i]>> \o SubPlain(t, i + 1) ELSE SubPlain(t, e + 1)

\* strip_sources_in_text(text)
strip_sources_in_text(text) ==
    JoinTokens(SplitFromPos(SubPlain(SubLinked(text, 1), 1), 1))

(***************************************************************************)
(* State of one call of run_generation_with_crew.                          *)
(***************************************************************************)
VARIABLES
    pc,             \* the collaborator call the function is at, or "done"
    sources,        \* the catalog passed by the caller
    keys_raw,       \* the researcher's answer
    selected_keys,  \* the approved key list
    adapted_text,   \* the adapter's text, stripped
    adapter_failed, \* the adapter call raised
    edited,         \* the editor's answer as returned by the call
    editor_calls,   \* how many times the editor was run
    outcome,        \* "running", "returned" or "raised"
    result          \* the text returned to the caller

(***************************************************************************)
(* State of a caller that runs _sanitize_citations on a text and then      *)
(* again on what it returned.                                              *)
(***************************************************************************)
VARIABLES
    filter_text,    \* the text passed to the first call
    filter_allowed, \* the allowed_keys list of both calls
    filtered        \* what the calls returned so far, in order

(***************************************************************************)
(* State of a caller of extract_claims.                                    *)
(***************************************************************************)
VARIABLES
    md_text,        \* the document
    paragraphs,     \* what _iter_paragraphs yielded for it
    claims,         \* what extract_claims returned
    extracted       \* extract_claims has returned

(***************************************************************************)
(* State of the ledger database and of the calls of ledger.py made on it,  *)
(* one after the other.                                                    *)
(***************************************************************************)
VARIABLES
    ledger,         \* the database: whether the table and its two indexes
                    \* exist, and the committed rows of claim_ledger in id order
    final_md,       \* the document at draft_md_path
    sources_json,   \* the items of the file at sources_json_path
    op,             \* the caller of the call under way or last made
    lpc,            \* where that call is: "idle" when none is under way
    batch,          \* the rows passed to insert_rows
    sent,           \* how many of them execute_batch has sent
    ret,            \* what log_claims_from_markdown returned
    fault,          \* the function that raised in the call, or "none"
    run_outcome,    \* how the caller ended
    before,         \* the database when the call started
    calls,          \* the number of calls made
    log_returns     \* the number of log_claims_from_markdown calls that returned

(***************************************************************************)
(* State of a caller that scores a claim text against an abstract, and     *)
(* then scores the same two texts written differently.                     *)
(***************************************************************************)
VARIABLES
    sim_a,          \* the claim text of the last similarity call
    sim_b,          \* the abstract of the last similarity call
    scores          \* what the similarity calls returned, in order

(***************************************************************************)
(* State of a project of the web application: its generations, the files   *)
(* of its artifacts directory, the ledger, and two requests that assemble  *)
(* it.                                                                     *)
(***************************************************************************)
VARIABLES
    generations,    \* the chunk_generations rows of the project, oldest first
    final_md_file,  \* the text of <artifacts>/<project>/final.md, or None
    sources_file,   \* the items of <artifacts>/<project>/sources.json, or None
    assemble,       \* for each request, where its write_artifacts_and_ledger
                    \* call is and what it holds: the text and the source list
                    \* it assembled, the text and the items it read back, the
                    \* rows it built
    claim_ledger    \* the rows of claim_ledger, in the order of their commit

(***************************************************************************)
(* State of a chunk whose text is saved from the edit form again and       *)
(* again, and stripped for the export.                                     *)
(***************************************************************************)
VARIABLES
    form_text,      \* the text submitted to the first save_generation request
    source_map,     \* app.config["SOURCE_MAP"]
    saved,          \* the generated_text stored by the save_generation
                    \* requests, in order
    stripped        \* what _strip_sources_in_text made of the texts stored,
                    \* in order

(***************************************************************************)
(* services.py: the domain lexicon and the style post-pass                 *)
(***************************************************************************)
HEALTHCARE_TERMS == <<
    <<"p", "a", "t", "i", "e", "n", "t">>,
    <<"c", "l", "i", "n", "i", "c", "i", "a", "n">>,
    <<"p", "r", "o", "v", "i", "d", "e", "r">>,
    <<"c", "a", "r", "e", " ", "t", "e", "a", "m">>,
    <<"c", "a", "r", "e", " ", "p", "a", "t", "h", "w", "a", "y">>,
    <<"c", "l", "i", "n", "i", "c", "a", "l", " ", "w", "o", "r", "k", "f", "l", "o", "w">>,
    <<"E", "H", "R">>,
    <<"E", "M", "R">>,
    <<"H", "I", "P", "A", "A">>,
    <<"I", "C", "U">>,
    <<"t", "r", "i", "a", "g", "e">>,
    <<"a", "m", "b", "u", "l", "a", "t", "o", "r", "y">>,
    <<"i", "n", "p", "a", "t", "i", "e", "n", "t">>,
    <<"d", "i", "a", "g", "n", "o", "s", "t", "i", "c">>,
    <<"t", "h", "e", "r", "a", "p", "e", "u", "t", "i", "c">>,
    <<"c", "l", "i", "n", "i", "c", "a", "l", " ", "d", "e", "c", "i", "s", "i", "o", "n", "-", "m", "a", "k", "i", "n", "g">>,
    <<"p", "r", "o", "t", "o", "c", "o", "l">>,
    <<"r", "o", "u", "n", "d", "s">>,
    <<"c", "h", "a", "r", "t", "i", "n", "g">>,
    <<"o", "r", "d", "e", "r", " ", "s", "e", "t">>,
    <<"Q", "A", "L", "Y">>,
    <<"o", "u", "t", "c", "o", "m", "e", " ", "m", "e", "a", "s", "u", "r", "e">>,
    <<"r", "e", "a", "d", "m", "i", "s", "s", "i", "o", "n">>,
    <<"m", "e", "d", "i", "c", "a", "t", "i", "o", "n", " ", "a", "d", "h", "e", "r", "e", "n", "c", "e">>,
    <<"c", "o", "m", "o", "r", "b", "i", "d", "i", "t", "y">>,
    <<"c", "a", "r", "e", " ", "c", "o", "o", "r", "d", "i", "n", "a", "t", "i", "o", "n">> >>

\* str.lower() of one character
LowerChar(c) ==
    CASE c = "A" -> "a" [] c = "B" -> "b" [] c = "C" -> "c" [] c = "D" -> "d"
      [] c = "E" -> "e" [] c = "F" -> "f" [] c = "G" -> "g" [] c = "H" -> "h"
      [] c = "I" -> "i" [] c = "J" -> "j" [] c = "K" -> "k" [] c = "L" -> "l"
      [] c = "M" -> "m" [] c = "N" -> "n" [] c = "O" -> "o" [] c = "P" -> "p"
      [] c = "Q" -> "q" [] c = "R" -> "r" [] c = "S" -> "s" [] c = "T" -> "t"
      [] c = "U" -> "u" [] c = "V" -> "v" [] c = "W" -> "w" [] c = "X" -> "x"
      [] c = "Y" -> "y" [] c = "Z" -> "z" [] OTHER -> c

\* str.lower()
lower(t) == [ i \in 1..Len(t) |-> LowerChar(t[i]) ]

\* s in t
InText(s, t) == \E i \in 1..(Len(t) - Len(s) + 1) : SubSeq(t, i, i + Len(s) - 1) = s

detect_target_industry(d) ==
    LET low == lower(d)
    IN  IF \/ InText(<<"h", "e", "a", "l", "t", "h", "c", "a", "r", "e">>, low)
           \/ InText(<<"h", "e", "a", "l", "t", "h", " ", "c", "a", "r", "e">>, low)
           \/ InText(<<"c", "l", "i", "n", "i", "c", "a", "l">>, low)
           \/ InText(<<"h", "o", "s", "p", "i", "t", "a", "l">>, low)
        THEN "healthcare" ELSE "general"

count_lexicon_hits(text, lexicon) ==
    Cardinality({ i \in 1..Len(lexicon) : InText(lower(lexicon[i]), lower(text)) })

\* min_hits = 2 if industry == "healthcare" else 0
MinHits(industry) == IF industry = "healthcare" THEN 2 ELSE 0

\* lexicon = HEALTHCARE_TERMS if industry == "healthcare" else []
Lexicon(industry) == IF industry = "healthcare" THEN HEALTHCARE_TERMS ELSE <<>>

\* enforce_industry_style returns text without asking for a rewrite
StyleKept(text, industry, min_hits, lexicon) ==
    \/ industry # "healthcare"
    \/ count_lexicon_hits(text, lexicon) >= min_hits

\* what enforce_industry_style returns once the rewrite, stripped, is there
AfterRewrite(text, answer) ==
    IF ~InText(<<"[", "S">>, answer) /\ ~InText(<<"[", "s">>, answer) THEN text ELSE answer

(***************************************************************************)
(* State of the ledger database and of calls of ledger.py made on it at    *)
(* the same time, each on its own connection.                              *)
(***************************************************************************)
VARIABLES
    table,          \* the database: schema and committed rows
    tx,             \* for each caller, where its call is ("idle", "schema",
                    \* "open", "returned", "raised"), the rows it inserts and
                    \* how many of them it has sent on its connection
    raced           \* two connections had sent rows and not committed, at the
                    \* same time

(***************************************************************************)
(* State of a call of generate_for_chunk, as far as the text it stores     *)
(* goes.                                                                   *)
(***************************************************************************)
VARIABLES
    directions,     \* project.directions
    crew_text,      \* what run_generation_with_crew returned, None when it
                    \* was not called
    style_text,     \* the local variable text
    revised,        \* the answer to the rewrite prompt, stripped, None when
                    \* no rewrite was asked for
    generated_text, \* ChunkGeneration.generated_text, None before the commit
    gpc             \* "start", "style", "save" or "saved"

crewVars == <<pc, sources, keys_raw, selected_keys, adapted_text, adapter_failed,
              edited, editor_calls, outcome, result>>

filterVars == <<filter_text, filter_allowed, filtered>>

extractVars == <<md_text, paragraphs, claims, extracted>>

ledgerVars == <<ledger, final_md, sources_json, op, lpc, batch, sent, ret, fault,
                run_outcome, before, calls, log_returns>>

simVars == <<sim_a, sim_b, scores>>

webVars == <<generations, final_md_file, sources_file, assemble, claim_ledger>>

linkVars == <<form_text, source_map, saved, stripped>>

txVars == <<table, tx, raced>>

styleVars == <<directions, crew_text, style_text, revised, generated_text, gpc>>

\* the state of the callers modelled further down
restVars == <<simVars, webVars, linkVars, txVars, styleVars>>

\* what run_generation_with_crew leaves alone
outsideCrew == <<filterVars, extractVars, ledgerVars, restVars>>

\* what the filter calls leave alone
outsideFilter == <<crewVars, extractVars, ledgerVars, restVars>>

\* what extract_claims leaves alone
outsideExtract == <<crewVars, filterVars, ledgerVars, restVars>>

\* what the calls of ledger.py leave alone
outsideLedger == <<crewVars, filterVars, extractVars, restVars>>

\* what the similarity calls leave alone
outsideSim == <<crewVars, filterVars, extractVars, ledgerVars, webVars, linkVars, txVars, styleVars>>

\* what the requests of the web application leave alone
outsideWeb == <<crewVars, filterVars, extractVars, ledgerVars, simVars, linkVars, txVars, styleVars>>

\* what the save_generation requests leave alone
outsideLink == <<crewVars, filterVars, extractVars, ledgerVars, simVars, webVars, txVars, styleVars>>

\* what the concurrent calls of ledger.py leave alone
outsideTx == <<crewVars, filterVars, extractVars, ledgerVars, simVars, webVars, linkVars, styleVars>>

\* what generate_for_chunk's text leaves alone
outsideStyle == <<crewVars, filterVars, extractVars, ledgerVars, simVars, webVars, linkVars, txVars>>

vars == <<crewVars, filterVars, extractVars, ledgerVars, restVars>>

\* no filter call is under way
FilterIdle ==
    /\ filter_text = <<>>
    /\ filter_allowed = <<>>
    /\ filtered = <<>>

\* no extract_claims call is under way
ExtractIdle ==
    /\ md_text = <<>>
    /\ paragraphs = <<>>
    /\ claims = <<>>
    /\ extracted = FALSE

\* no call of ledger.py is made and there is no database
LedgerIdle ==
    /\ ledger = <<>>
    /\ final_md = <<>>
    /\ sources_json = <<>>
    /\ op = "none"
    /\ lpc = "off"
    /\ batch = <<>>
    /\ sent = 0
    /\ ret = <<>>
    /\ fault = "none"
    /\ run_outcome = "none"
    /\ before = <<>>
    /\ calls = 0
    /\ log_returns = 0

\* no similarity call is made
SimIdle ==
    /\ sim_a = <<>>
    /\ sim_b = <<>>
    /\ scores = <<>>

\* there is no project
WebIdle ==
    /\ generations = <<>>
    /\ final_md_file = <<>>
    /\ sources_file = <<>>
    /\ assemble = <<>>
    /\ claim_ledger = <<>>

\* no text is saved
LinkIdle ==
    /\ form_text = <<>>
    /\ source_map = <<>>
    /\ saved = <<>>
    /\ stripped = <<>>

\* generate_for_chunk is not called
StyleIdle ==
    /\ directions = <<>>
    /\ crew_text = <<>>
    /\ style_text = <<>>
    /\ revised = <<>>
    /\ generated_text = <<>>
    /\ gpc = "idle"

\* no concurrent call is made
TxIdle ==
    /\ table = <<>>
    /\ tx = <<>>
    /\ raced = FALSE

\* none of the callers modelled further down is active
RestIdle == SimIdle /\ WebIdle /\ LinkIdle /\ TxIdle /\ StyleIdle

\* no run_generation_with_crew call is under way
CrewIdle ==
    /\ pc = "idle"
    /\ sources = <<>>
    /\ keys_raw = <<>>
    /\ selected_keys = <<>>
    /\ adapted_text = <<>>
    /\ adapter_failed = FALSE
    /\ edited = <<>>
    /\ editor_calls = 0
    /\ outcome = "idle"
    /\ result = <<>>

\* the first four callers are idle
FirstIdle == CrewIdle /\ FilterIdle /\ ExtractIdle /\ LedgerIdle

CrewInit ==
    /\ pc = "select"
    /\ sources \in Catalogs
    /\ keys_raw = <<>>
    /\ selected_keys = <<>>
    /\ adapted_text = <<>>
    /\ adapter_failed = FALSE
    /\ edited = <<>>
    /\ editor_calls = 0
    /\ outcome = "running"
    /\ result = <<>>

\* [s.get("key") for s in sources if s.get("key")]
RECURSIVE KeysOf(_)
KeysOf(srcs) ==
    IF srcs = <<>> THEN <<>>
    ELSE IF Head(srcs).key # NoKey THEN <<Head(srcs).key>> \o KeysOf(Tail(srcs))
         ELSE KeysOf(Tail(srcs))

\* xs[:n]
Take(xs, n) == SubSeq(xs, 1, IF Len(xs) < n THEN Len(xs) ELSE n)

\* FallbackKeys with the slice one too long
FallbackKeysFirstThree(srcs) == Take(KeysOf(srcs), 3)

\* lines 168-169: the fallback when nothing was parsed
FallbackKeys(srcs) == Take(KeysOf(srcs), 2)

\* lines 165-169
SelectKeys(raw, srcs) ==
    LET parsed == _parse_selected_keys(raw)
    IN  IF parsed = <<>> THEN FallbackKeys(srcs) ELSE parsed

\* lines 160-169: the researcher answers
SelectReturns ==
    /\ pc = "select"
    /\ \E raw \in Proposals :
        /\ keys_raw' = raw
        /\ selected_keys' = SelectKeys(raw, sources)
    /\ pc' = "adapt"
    /\ UNCHANGED <<sources, adapted_text, adapter_failed, edited, editor_calls,
                   outcome, result>>
    /\ UNCHANGED outsideCrew

\* line 160: the researcher call raises; nothing catches it
SelectRaises ==
    /\ pc = "select"
    /\ pc' = "done"
    /\ outcome' = "raised"
    /\ UNCHANGED <<sources, keys_raw, selected_keys, adapted_text, adapter_failed,
                   edited, editor_calls, result>>
    /\ UNCHANGED outsideCrew

\* lines 193-199: the adapter answers
AdaptReturns ==
    /\ pc = "adapt"
    /\ \E txt \in AdaptedTexts : adapted_text' = strip(txt)
    /\ pc' = "edit"
    /\ UNCHANGED <<sources, keys_raw, selected_keys, adapter_failed, edited,
                   editor_calls, outcome, result>>
    /\ UNCHANGED outsideCrew

\* AdaptRaises without the try/except: the adapter's fault ends the call
AdaptRaisesPropagates ==
    /\ pc = "adapt"
    /\ adapter_failed' = TRUE
    /\ outcome' = "raised"
    /\ pc' = "done"
    /\ UNCHANGED <<sources, keys_raw, selected_keys, adapted_text, edited,
                   editor_calls, result>>
    /\ UNCHANGED outsideCrew

\* lines 200-202: the adapter call raises and the fault is caught
AdaptRaises ==
    /\ pc = "adapt"
    /\ adapted_text' = <<>>
    /\ adapter_failed' = TRUE
    /\ pc' = "edit"
    /\ UNCHANGED <<sources, keys_raw, selected_keys, edited, editor_calls,
                   outcome, result>>
    /\ UNCHANGED outsideCrew

\* lines 220-246: the editor answers, the text is sanitized and returned
EditReturns ==
    /\ pc = "edit"
    /\ \E txt \in EditedTexts :
        /\ edited' = txt
        /\ result' = Enforce(strip(txt), adapted_text, selected_keys)
    /\ editor_calls' = editor_calls + 1
    /\ outcome' = "returned"
    /\ pc' = "done"
    /\ UNCHANGED <<sources, keys_raw, selected_keys, adapted_text, adapter_failed>>
    /\ UNCHANGED outsideCrew

\* line 220: the editor call raises; nothing catches it
EditRaises ==
    /\ pc = "edit"
    /\ editor_calls' = editor_calls + 1
    /\ outcome' = "raised"
    /\ pc' = "done"
    /\ UNCHANGED <<sources, keys_raw, selected_keys, adapted_text, adapter_failed,
                   edited, result>>
    /\ UNCHANGED outsideCrew

Init == CrewInit /\ FilterIdle /\ ExtractIdle /\ LedgerIdle /\ RestIdle

Next ==
    \/ SelectReturns
    \/ SelectRaises
    \/ AdaptReturns
    \/ AdaptRaises
    \/ EditReturns
    \/ EditRaises

Spec == Init /\ [][Next]_vars

(***************************************************************************)
(* _sanitize_citations called on a text, then on its own result.           *)
(***************************************************************************)
\* what the filtered text is put together from
FilterPieces ==
    { <<"a">>, <<" ">>, <<"2">>, <<"[", "S", "1", "]">>, <<"[", "S", "9", "]">>,
      <<"[", "S">>, <<"1", "]">>, <<"]">> }

FilterTexts == TextsOf(FilterPieces, MaxPieces)

\* the allowed_keys lists tried
AllowedLists ==
    { <<>>,
      <<KeyNo(1)>>,
      <<KeyNo(9), <<"S", "2", "1">>>> }

FilterInit ==
    /\ filter_text \in FilterTexts
    /\ filter_allowed \in AllowedLists
    /\ filtered = <<>>

\* _sanitize_citations(text, allowed_keys)
FirstFilter ==
    /\ filtered = <<>>
    /\ filtered' = <<_sanitize_citations(filter_text, filter_allowed)>>
    /\ UNCHANGED <<filter_text, filter_allowed>>
    /\ UNCHANGED outsideFilter

\* _sanitize_citations(_sanitize_citations(text, allowed_keys), allowed_keys)
SecondFilter ==
    /\ Len(filtered) = 1
    /\ filtered' = Append(filtered, _sanitize_citations(filtered[1], filter_allowed))
    /\ UNCHANGED <<filter_text, filter_allowed>>
    /\ UNCHANGED outsideFilter

FilterNext ==
    \/ FirstFilter
    \/ SecondFilter

InitFilter == CrewIdle /\ FilterInit /\ ExtractIdle /\ LedgerIdle /\ RestIdle

SpecFilter == InitFilter /\ [][FilterNext]_vars

(***************************************************************************)
(* extract_claims called on a document.                                    *)
(***************************************************************************)
\* the lines the documents are put together from: headings of level 1 and 2,
\* a heading with an empty title, paragraph lines with and without citation
\* tokens, an empty line and a line of whitespace
DocLines ==
    { <<"#", " ", "A", "\n">>,
      <<"#", "#", " ", "B", "\n">>,
      <<"#", " ", "\n">>,
      <<"a", " ", "[", "S", "1", "]", "\n">>,
      <<"[", "S", "2", "]", " ", "[", "S", "1", "]", "[", "S", "2", "]", "\n">>,
      <<"x", "\n">>,
      <<"\n">>,
      <<" ", "\t", "\n">> }

DocTexts == TextsOf(DocLines, MaxLines)

ExtractInit ==
    /\ md_text \in DocTexts
    /\ paragraphs = <<>>
    /\ claims = <<>>
    /\ extracted = FALSE

\* extract_claims(md_text), and the paragraphs it read from _iter_paragraphs
ExtractClaims ==
    /\ ~extracted
    /\ paragraphs' = _iter_paragraphs(md_text)
    /\ claims' = extract_claims(md_text)
    /\ extracted' = TRUE
    /\ UNCHANGED md_text
    /\ UNCHANGED outsideExtract

ExtractNext == ExtractClaims

InitExtract == CrewIdle /\ FilterIdle /\ ExtractInit /\ LedgerIdle /\ RestIdle

SpecExtract == InitExtract /\ [][ExtractNext]_vars

(***************************************************************************)
(* Calls of ensure_schema, insert_rows and log_claims_from_markdown (from  *)
(* the web assemble flow and from the command-line runner) on one database.*)
(***************************************************************************)
\* project_id of the logged document, of the rows inserted directly and of
\* the row stored before
Project == <<"p">>

OtherProject == <<"q">>

OldProject == <<"o">>

\* an item of sources.json with a title only
Item(key, abstract) ==
    [key |-> key, title |-> Some(<<"T">>), year |-> None, doi |-> None,
     url |-> None, abstract |-> abstract]

\* the files sources.json tried: empty; S1 with an abstract; S1 without an
\* abstract and S2 with an empty one; an item without a key, S1 with an
\* abstract of whitespace and S2 with a year, a doi and an abstract
LedgerCatalogs ==
    { <<>>,
      <<Item(Some(KeyNo(1)), Some(<<"a", " ", "b">>))>>,
      <<Item(Some(KeyNo(1)), None), Item(Some(KeyNo(2)), Some(<<>>))>>,
      <<Item(None, Some(<<"a">>)),
        Item(Some(KeyNo(1)), Some(<<" ">>)),
        [key |-> Some(KeyNo(2)), title |-> None, year |-> Some(<<"2", "1">>),
         doi |-> Some(<<"x">>), url |-> Some(<<"b">>), abstract |-> Some(<<"x", " ", "a">>)]>> }

\* the documents tried: empty; no citation token; a cited paragraph under a
\* heading; a paragraph citing S2, S1 and S2 again; the same cited paragraph
\* twice
LedgerDocs ==
    { <<>>,
      <<"x", "\n">>,
      <<"#", " ", "A", "\n", "a", " ", "[", "S", "1", "]", "\n">>,
      <<"x", " ", "[", "S", "2", "]", " ", "[", "S", "1", "]", "[", "S", "2", "]", "\n">>,
      <<"a", " ", "[", "S", "1", "]", "\n", "\n", "a", " ", "[", "S", "1", "]", "\n">> }

\* the i-th row of a batch passed to insert_rows directly
BulkRow(i) ==
    [project_id |-> OtherProject, section |-> ROOT,
     claim_text |-> Cite(KeyNo(1)), source_key |-> KeyNo(1),
     source_citation |-> <<>>, similarity_score |-> None, created_at |-> i]

\* the lengths of the batches passed to insert_rows directly: none, one row,
\* one row more than a page
BulkSizes == {0, 1, PageSize + 1}

\* a database without the table, and one with its schema and a row
Fresh == [table |-> FALSE, idx_project |-> FALSE, idx_section |-> FALSE, rows |-> <<>>]

Populated ==
    [table |-> TRUE, idx_project |-> TRUE, idx_section |-> TRUE,
     rows |-> <<[BulkRow(0) EXCEPT !.project_id = OldProject]>>]

LedgerInit ==
    /\ ledger \in {Fresh, Populated}
    /\ final_md \in LedgerDocs
    /\ sources_json \in LedgerCatalogs
    /\ op = "none"
    /\ lpc = "idle"
    /\ batch = <<>>
    /\ sent = 0
    /\ ret = None
    /\ fault = "none"
    /\ run_outcome = "none"
    /\ before = ledger
    /\ calls = 0
    /\ log_returns = 0

\* a call starts
Enter(caller) ==
    /\ lpc = "idle"
    /\ calls < MaxCalls
    /\ calls' = calls + 1
    /\ op' = caller
    /\ before' = ledger
    /\ ret' = None

\* ensure_schema(pg_dsn), called directly, returns
EnsureSchema ==
    /\ Enter("ensure_schema")
    /\ ledger' = DDL(ledger)
    /\ fault' = "none"
    /\ run_outcome' = "returned"
    /\ UNCHANGED <<final_md, sources_json, lpc, batch, sent, log_returns>>
    /\ UNCHANGED outsideLedger

\* ensure_schema(pg_dsn), called directly, raises: the connection or the
\* statement failed and nothing is committed
EnsureSchemaRaises ==
    /\ Enter("ensure_schema")
    /\ fault' = "ensure_schema"
    /\ run_outcome' = AfterRaise("ensure_schema")
    /\ UNCHANGED <<ledger, final_md, sources_json, lpc, batch, sent, log_returns>>
    /\ UNCHANGED outsideLedger

\* insert_rows(pg_dsn, rows) is called directly
CallInsertRows ==
    /\ Enter("insert_rows")
    /\ \E n \in BulkSizes : batch' = [ i \in 1..n |-> BulkRow(i) ]
    /\ sent' = 0
    /\ lpc' = "insert"
    /\ fault' = "none"
    /\ run_outcome' = "running"
    /\ UNCHANGED <<ledger, final_md, sources_json, log_returns>>
    /\ UNCHANGED outsideLedger

\* the web assemble flow (write_artifacts_and_ledger) or the command-line
\* runner (_maybe_log_to_ledger) calls log_claims_from_markdown
CallLog ==
    /\ \E caller \in {"web", "cli"} : Enter(caller)
    /\ lpc' = "ensure"
    /\ batch' = <<>>
    /\ sent' = 0
    /\ fault' = "none"
    /\ run_outcome' = "running"
    /\ UNCHANGED <<ledger, final_md, sources_json, log_returns>>
    /\ UNCHANGED outsideLedger

\* log_claims_from_markdown: ensure_schema returns, the files are read and
\* the rows built, insert_rows is called
LogBuildsRows ==
    /\ lpc = "ensure"
    /\ ledger' = DDL(ledger)
    /\ batch' = BuildRows(Project, final_md, sources_json, calls)
    /\ lpc' = "insert"
    /\ UNCHANGED <<final_md, sources_json, op, sent, ret, fault, run_outcome,
                   before, calls, log_returns>>
    /\ UNCHANGED outsideLedger

\* log_claims_from_markdown: ensure_schema raises, and so does the call
LogSchemaRaises ==
    /\ lpc = "ensure"
    /\ fault' = "ensure_schema"
    /\ run_outcome' = AfterRaise(op)
    /\ lpc' = "idle"
    /\ UNCHANGED <<ledger, final_md, sources_json, op, batch, sent, ret, before,
                   calls, log_returns>>
    /\ UNCHANGED outsideLedger

\* how a call that did not raise ends: insert_rows returns None to its direct
\* caller; log_claims_from_markdown returns len(rows) and its run goes on to
\* its end
Returns ==
    /\ lpc' = "idle"
    /\ fault' = "none"
    /\ IF op = "insert_rows"
       THEN /\ run_outcome' = "returned"
            /\ UNCHANGED <<ret, log_returns>>
       ELSE /\ run_outcome' = "completed"
            /\ ret' = Some(ReturnValue(batch))
            /\ log_returns' = log_returns + 1

\* insert_rows: "if not rows: return"
InsertNothing ==
    /\ lpc = "insert"
    /\ batch = <<>>
    /\ Returns
    /\ UNCHANGED <<ledger, final_md, sources_json, op, batch, sent, before, calls>>
    /\ UNCHANGED outsideLedger

\* insert_rows: execute_batch sends the next page of at most page_size rows
\* in the transaction of the connection
InsertSendsPage ==
    /\ lpc \in {"insert", "sending"}
    /\ batch # <<>>
    /\ sent < Len(batch)
    /\ ledger.table
    /\ sent' = IF sent + PageSize < Len(batch) THEN sent + PageSize ELSE Len(batch)
    /\ lpc' = "sending"
    /\ UNCHANGED <<ledger, final_md, sources_json, op, batch, ret, fault,
                   run_outcome, before, calls, log_returns>>
    /\ UNCHANGED outsideLedger

\* insert_rows: the connection, a statement (the table is missing, or the
\* server failed) or the commit raises; the transaction is rolled back and
\* the exception leaves insert_rows and its caller
InsertRaises ==
    /\ lpc \in {"insert", "sending"}
    /\ batch # <<>>
    /\ ledger' = [ledger EXCEPT !.rows = AfterFault(ledger.rows, SubSeq(batch, 1, sent))]
    /\ fault' = "insert_rows"
    /\ run_outcome' = AfterRaise(op)
    /\ lpc' = "idle"
    /\ UNCHANGED <<final_md, sources_json, op, batch, sent, ret, before, calls,
                   log_returns>>
    /\ UNCHANGED outsideLedger

\* insert_rows: every page is sent, conn.commit() and return
InsertCommits ==
    /\ lpc = "sending"
    /\ sent = Len(batch)
    /\ ledger' = [ledger EXCEPT !.rows = Committed(ledger.rows, batch)]
    /\ Returns
    /\ UNCHANGED <<final_md, sources_json, op, batch, sent, before, calls>>
    /\ UNCHANGED outsideLedger

LedgerNext ==
    \/ EnsureSchema
    \/ EnsureSchemaRaises
    \/ CallInsertRows
    \/ CallLog
    \/ LogBuildsRows
    \/ LogSchemaRaises
    \/ InsertNothing
    \/ InsertSendsPage
    \/ InsertRaises
    \/ InsertCommits

InitLedger == CrewIdle /\ FilterIdle /\ ExtractIdle /\ LedgerInit /\ RestIdle

SpecLedger == InitLedger /\ [][LedgerNext]_vars

(***************************************************************************)
(* similarity called on a claim text and an abstract, then on the same     *)
(* tokens in another order or with other whitespace between them.          *)
(***************************************************************************)
\* the pieces the scored texts are made of
SimPieces == { <<"a">>, <<"b">>, <<" ">>, <<"\n">> }

SimTexts == TextsOf(SimPieces, MaxPieces)

\* the abstracts of the catalog: none, empty, blank, and texts
SimAbstracts ==
    { None, Some(<<>>), Some(<<" ">>), Some(<<"a">>), Some(<<"a", " ", "b">>),
      Some(<<"b", "\n", "a">>), Some(<<"a", "b">>), Some(<<"b", " ", "b">>),
      Some(<<"a", "b", " ", "a">>) }

\* the tokens of a text with the number of times each occurs
TokenBag(t) ==
    LET toks == SplitFromPos(t, 1)
    IN  [ k \in Range(toks) |-> Cardinality({ i \in 1..Len(toks) : toks[i] = k }) ]

\* the texts that differ from t in the order of the tokens and in the
\* whitespace only; an abstract that is not empty stays so
Rewritings(t) == { u \in SimTexts : TokenBag(u) = TokenBag(t) }

SimInit ==
    /\ sim_a \in SimTexts
    /\ sim_b \in SimAbstracts
    /\ scores = <<>>

\* similarity(a, b)
Score ==
    /\ scores = <<>>
    /\ scores' = <<similarity(sim_a, sim_b)>>
    /\ UNCHANGED <<sim_a, sim_b>>
    /\ UNCHANGED outsideSim

\* similarity called again, on rewritings of the texts of the last call, when
\* that call had an abstract
ScoreRewritten ==
    /\ Len(scores) = 1
    /\ ~Falsy(sim_b)
    /\ \E a2 \in Rewritings(sim_a), b2 \in Rewritings(sim_b[1]) \ {<<>>} :
          /\ sim_a' = a2
          /\ sim_b' = Some(b2)
          /\ scores' = Append(scores, similarity(a2, Some(b2)))
    /\ UNCHANGED outsideSim

SimNext ==
    \/ Score
    \/ ScoreRewritten

InitSim == FirstIdle /\ SimInit /\ WebIdle /\ LinkIdle /\ TxIdle /\ StyleIdle

SpecSim == InitSim /\ [][SimNext]_vars

(***************************************************************************)
(* A project of two chunks: generate_for_chunk requests, and two requests  *)
(* of the assemble route, each running write_artifacts_and_ledger.         *)
(***************************************************************************)
\* the chunks of the project, by order_index
ProjectChunks == <<1, 2>>

\* the two requests
Requests == {1, 2}

\* a Europe PMC result and a PubMed summary
PmcResult(title, abstract) ==
    [title |-> Some(title), abstractText |-> abstract, doi |-> None, pubYear |-> None,
     url |-> <<"e">>]

PubmedSummary(title) == [title |-> title, url |-> <<"m">>]

\* what a generation is made from: the text the generator wrote and what the
\* searches found for the chunk. A text citing S1 with one open-access
\* source A; another citing S1 with one open-access source B; a text citing
\* S2 with the open-access source B and, after a summary without a title, the
\* PubMed source A; a text without citation when the search failed
GenerationInputs ==
    { [text |-> <<"a", " ", "[", "S", "1", "]">>,
       found |-> Some([pmc |-> <<PmcResult(<<"A">>, Some(<<"a">>))>>, pubmed |-> <<>>])],
      [text |-> <<"x", " ", "[", "S", "1", "]">>,
       found |-> Some([pmc |-> <<PmcResult(<<"B">>, None)>>, pubmed |-> <<>>])],
      [text |-> <<"b", " ", "[", "S", "2", "]">>,
       found |-> Some([pmc |-> <<PmcResult(<<"B">>, Some(<<"x">>))>>,
                       pubmed |-> <<PubmedSummary(None), PubmedSummary(Some(<<"A">>))>>])],
      [text |-> <<"x">>, found |-> None] }

\* a request that has not started
NotStarted ==
    [pc |-> "idle", text |-> <<>>, seen |-> <<>>, md |-> <<>>, data |-> <<>>,
     rows |-> <<>>]

\* the generations the project starts with: none; or one whose source list
\* holds a record without a key before the record S1
StoredGenerations ==
    { <<>>,
      <<[chunk_id |-> 1, generated_text |-> <<"a", " ", "[", "S", "1", "]">>,
         sources |-> Some(<<Item(None, Some(<<"a">>)),
                            Item(Some(KeyNo(1)), Some(<<"a">>))>>)]>> }

WebInit ==
    /\ generations \in StoredGenerations
    /\ final_md_file = None
    /\ sources_file = None
    /\ assemble = [ r \in Requests |-> NotStarted ]
    /\ claim_ledger = <<>>

\* generate_for_chunk(project, chunk): the sources are built, or none when
\* the search raised; the text comes from the generator; the generation is
\* stored
GenerateForChunk ==
    /\ Len(generations) < MaxGenerations
    /\ \E ch \in Range(ProjectChunks), in \in GenerationInputs :
          LET srcs == IF in.found = None THEN <<>>
                      ELSE build_sources_for_neuro(in.found[1], Need)
          IN  generations' = Append(generations,
                                    [chunk_id |-> ch, generated_text |-> in.text,
                                     sources |-> Some(srcs)])
    /\ UNCHANGED <<final_md_file, sources_file, assemble, claim_ledger>>
    /\ UNCHANGED outsideWeb

\* write_artifacts_and_ledger, lines 227-233: the latest generations are
\* read and the text of the document is joined
ReadGenerations(r) ==
    /\ assemble[r].pc = "idle"
    /\ LET latest == latest_generation_map(generations)
       IN  assemble' = [assemble EXCEPT ![r].pc = "write_md",
                                        ![r].text = FinalMdText(ProjectChunks, latest),
                                        ![r].seen = SourcesOf(latest)]
    /\ UNCHANGED <<generations, final_md_file, sources_file, claim_ledger>>
    /\ UNCHANGED outsideWeb

\* lines 235-238: final.md is written
WriteFinalMd(r) ==
    /\ assemble[r].pc = "write_md"
    /\ final_md_file' = Some(assemble[r].text)
    /\ assemble' = [assemble EXCEPT ![r].pc = "write_sources"]
    /\ UNCHANGED <<generations, sources_file, claim_ledger>>
    /\ UNCHANGED outsideWeb

\* lines 240-249: the sources of the latest generations are gathered by key
\* and sources.json is written (the .docx built from the two files is not
\* part of the state); a source without a key entry raises KeyError
WriteSources(r) ==
    /\ assemble[r].pc = "write_sources"
    /\ IF KeyErrorIn(assemble[r].seen)
       THEN /\ assemble' = [assemble EXCEPT ![r].pc = "raised"]
            /\ UNCHANGED sources_file
       ELSE LET seen == SeenFrom(assemble[r].seen, <<>>)
            IN  /\ sources_file' = Some(seen)
                /\ assemble' = [assemble EXCEPT ![r].pc = "read_md", ![r].seen = seen]
    /\ UNCHANGED <<generations, final_md_file, claim_ledger>>
    /\ UNCHANGED outsideWeb

\* log_claims_from_markdown, lines 171-174: the draft is read back
ReadDraft(r) ==
    /\ assemble[r].pc = "read_md"
    /\ assemble' = [assemble EXCEPT ![r].pc = "read_sources", ![r].md = final_md_file[1]]
    /\ UNCHANGED <<generations, final_md_file, sources_file, claim_ledger>>
    /\ UNCHANGED outsideWeb

\* lines 176-193: sources.json is read back and the rows are built
LoadSources(r) ==
    /\ assemble[r].pc = "read_sources"
    /\ assemble' = [assemble EXCEPT
                       ![r].pc = "insert",
                       ![r].data = sources_file[1],
                       ![r].rows = BuildRows(LedgerProjectId(Project), assemble[r].md,
                                             sources_file[1], r)]
    /\ UNCHANGED <<generations, final_md_file, sources_file, claim_ledger>>
    /\ UNCHANGED outsideWeb

\* lines 195-196 and the return of write_artifacts_and_ledger: the rows are
\* committed
InsertLogged(r) ==
    /\ assemble[r].pc = "insert"
    /\ claim_ledger' = Committed(claim_ledger, assemble[r].rows)
    /\ assemble' = [assemble EXCEPT ![r].pc = "returned"]
    /\ UNCHANGED <<generations, final_md_file, sources_file>>
    /\ UNCHANGED outsideWeb

WebNext ==
    \/ GenerateForChunk
    \/ \E r \in Requests :
          \/ ReadGenerations(r)
          \/ WriteFinalMd(r)
          \/ WriteSources(r)
          \/ ReadDraft(r)
          \/ LoadSources(r)
          \/ InsertLogged(r)

InitWeb == FirstIdle /\ SimIdle /\ WebInit /\ LinkIdle /\ TxIdle /\ StyleIdle

SpecWeb == InitWeb /\ [][WebNext]_vars

(***************************************************************************)
(* save_generation requests on one chunk, each submitting the text the     *)
(* last one stored, and the stripping of the stored text.                  *)
(***************************************************************************)
\* the pieces the submitted texts are made of
LinkPieces ==
    { <<"[", "S", "1", "]">>, <<"[", "S", "2", "]">>, <<"(", "u", ")">>, <<"a">>,
      <<" ">>, <<")">> }

LinkTexts == TextsOf(LinkPieces, MaxPieces)

\* the mappings from key to url: none; a url for S1; a url holding ")" for
\* S1; an empty url for S1 and a url for S2
SourceMaps ==
    { <<>>,
      Put(<<>>, KeyNo(1), <<"u">>),
      Put(<<>>, KeyNo(1), <<"u", ")", "a">>),
      Put(Put(<<>>, KeyNo(1), <<>>), KeyNo(2), <<"u">>) }

LinkInit ==
    /\ form_text \in LinkTexts
    /\ source_map \in SourceMaps
    /\ saved = <<>>
    /\ stripped = <<>>

\* save_generation: the form holds form_text at first, later the text stored
\* last; a text that is empty once stripped is not stored
SaveGeneration ==
    /\ Len(saved) < MaxCalls
    /\ LET text == strip(IF saved = <<>> THEN form_text ELSE saved[Len(saved)])
       IN  /\ text # <<>>
           /\ saved' = Append(saved, link_sources_in_text(text, source_map))
    /\ UNCHANGED <<form_text, source_map, stripped>>
    /\ UNCHANGED outsideLink

\* _strip_sources_in_text on the text stored last
StripSources ==
    /\ Len(stripped) < Len(saved)
    /\ Len(stripped) = Len(saved) - 1
    /\ stripped' = Append(stripped, strip_sources_in_text(saved[Len(saved)]))
    /\ UNCHANGED <<form_text, source_map, saved>>
    /\ UNCHANGED outsideLink

LinkNext ==
    \/ SaveGeneration
    \/ StripSources

InitLink == FirstIdle /\ SimIdle /\ WebIdle /\ LinkInit /\ TxIdle /\ StyleIdle

SpecLink == InitLink /\ [][LinkNext]_vars

(***************************************************************************)
(* The selection step of run_generation_with_crew on any answer of the     *)
(* researcher.                                                             *)
(***************************************************************************)
\* the pieces the researcher's answers are made of
ProposalPieces ==
    { <<"S", "1">>, <<"S", "2">>, <<"[", "S", "1", "]">>, <<"[", "S", "2", "]">>,
      <<",">>, <<"x">> }

ProposalTexts == TextsOf(ProposalPieces, MaxPieces)

\* lines 160-169: the researcher answers
SelectAnswers ==
    /\ pc = "select"
    /\ \E raw \in ProposalTexts :
        /\ keys_raw' = raw
        /\ selected_keys' = SelectKeys(raw, sources)
    /\ pc' = "adapt"
    /\ UNCHANGED <<sources, adapted_text, adapter_failed, edited, editor_calls,
                   outcome, result>>
    /\ UNCHANGED outsideCrew

SelectNext == SelectAnswers

InitSelect == CrewInit /\ FilterIdle /\ ExtractIdle /\ LedgerIdle /\ RestIdle

SpecSelect == InitSelect /\ [][SelectNext]_vars

(***************************************************************************)
(* extract_claims called on a document with headings of three levels.      *)
(***************************************************************************)
\* the lines the documents are made of: headings of level 1, 2 and 3, a
\* citing line, a blank line
HeadedLines ==
    { <<"#", " ", "A", "\n">>,
      <<"#", "#", " ", "B", "\n">>,
      <<"#", "#", "#", " ", "A", "\n">>,
      <<"a", " ", "[", "S", "1", "]", "\n">>,
      <<"\n">> }

HeadedTexts == TextsOf(HeadedLines, MaxLines)

HeadedInit ==
    /\ md_text \in HeadedTexts
    /\ paragraphs = <<>>
    /\ claims = <<>>
    /\ extracted = FALSE

InitHeaded == CrewIdle /\ FilterIdle /\ HeadedInit /\ LedgerIdle /\ RestIdle

SpecHeaded == InitHeaded /\ [][ExtractNext]_vars

(***************************************************************************)
(* Calls of insert_rows and log_claims_from_markdown made at the same      *)
(* time on one database, each on the connection it opens.                  *)
(***************************************************************************)
\* the callers
Writers == 1..MaxCalls

\* the rows the caller w passes to insert_rows: n rows dated w
WriterRows(w, n) == [ i \in 1..n |-> [BulkRow(i) EXCEPT !.created_at = w] ]

\* the document and the sources the log_claims_from_markdown calls read
SharedDraft == <<"x", " ", "[", "S", "2", "]", " ", "[", "S", "1", "]", "\n">>

SharedSources == <<Item(Some(KeyNo(1)), Some(<<"a", " ", "b">>))>>

\* the rows sent and not committed, by any call: the calls send on one
\* connection that they share
PendingOfAll(all, w) ==
    LET RECURSIVE SentFrom(_)
        SentFrom(v) ==
            IF v > Len(all) THEN <<>>
            ELSE (IF all[v].pc = "open" THEN SubSeq(all[v].batch, 1, all[v].sent) ELSE <<>>)
                    \o SentFrom(v + 1)
    IN  SentFrom(1)

\* the rows sent on the connection of w and not committed: each call sends
\* on the connection it opened itself
PendingOf(all, w) == SubSeq(all[w].batch, 1, all[w].sent)

\* two connections hold rows sent and not committed
Racing(all) ==
    \E v, w \in Writers :
        v # w /\ all[v].pc = "open" /\ all[w].pc = "open" /\ all[v].sent > 0 /\ all[w].sent > 0

TxInit ==
    /\ table \in {Fresh, Populated}
    /\ tx = [ w \in Writers |-> [pc |-> "idle", batch |-> <<>>, sent |-> 0] ]
    /\ raced = FALSE

\* insert_rows(pg_dsn, rows) is called: it returns at once for no rows, else
\* it opens a connection
CallsInsertRows(w) ==
    /\ tx[w].pc = "idle"
    /\ \E n \in BulkSizes :
          tx' = [tx EXCEPT ![w] = [pc |-> IF n = 0 THEN "returned" ELSE "open",
                                   batch |-> WriterRows(w, n), sent |-> 0]]
    /\ UNCHANGED <<table, raced>>
    /\ UNCHANGED outsideTx

\* log_claims_from_markdown is called
CallsLog(w) ==
    /\ tx[w].pc = "idle"
    /\ tx' = [tx EXCEPT ![w].pc = "schema"]
    /\ UNCHANGED <<table, raced>>
    /\ UNCHANGED outsideTx

\* log_claims_from_markdown, lines 171-195: ensure_schema commits, the rows
\* are built and passed to insert_rows
LogOpens(w) ==
    /\ tx[w].pc = "schema"
    /\ table' = DDL(table)
    /\ LET rows == BuildRows(Project, SharedDraft, SharedSources, w)
       IN  tx' = [tx EXCEPT ![w] = [pc |-> IF rows = <<>> THEN "returned" ELSE "open",
                                    batch |-> rows, sent |-> 0]]
    /\ UNCHANGED raced
    /\ UNCHANGED outsideTx

\* ensure_schema raises in log_claims_from_markdown
LogSchemaFails(w) ==
    /\ tx[w].pc = "schema"
    /\ tx' = [tx EXCEPT ![w].pc = "raised"]
    /\ UNCHANGED <<table, raced>>
    /\ UNCHANGED outsideTx

\* execute_batch sends the next page on the connection of w
SendsPage(w) ==
    /\ tx[w].pc = "open"
    /\ tx[w].sent < Len(tx[w].batch)
    /\ table.table
    /\ LET n == Len(tx[w].batch)
           all == [tx EXCEPT ![w].sent = IF tx[w].sent + PageSize < n
                                         THEN tx[w].sent + PageSize ELSE n]
       IN  /\ tx' = all
           /\ raced' = (raced \/ Racing(all))
    /\ UNCHANGED table
    /\ UNCHANGED outsideTx

\* the connection, a statement or the commit of w raises: its transaction is
\* rolled back
TxRaises(w) ==
    /\ tx[w].pc = "open"
    /\ table' = [table EXCEPT !.rows = AfterFault(table.rows, PendingOf(tx, w))]
    /\ tx' = [tx EXCEPT ![w].pc = "raised"]
    /\ UNCHANGED raced
    /\ UNCHANGED outsideTx

\* every page of w is sent: conn.commit() and return
TxCommits(w) ==
    /\ tx[w].pc = "open"
    /\ tx[w].sent = Len(tx[w].batch)
    /\ table' = [table EXCEPT !.rows = Committed(table.rows, PendingOf(tx, w))]
    /\ tx' = [tx EXCEPT ![w].pc = "returned"]
    /\ UNCHANGED raced
    /\ UNCHANGED outsideTx

TxNext ==
    \E w \in Writers :
        \/ CallsInsertRows(w)
        \/ CallsLog(w)
        \/ LogOpens(w)
        \/ LogSchemaFails(w)
        \/ SendsPage(w)
        \/ TxRaises(w)
        \/ TxCommits(w)

InitTx == FirstIdle /\ SimIdle /\ WebIdle /\ LinkIdle /\ TxInit /\ StyleIdle

SpecTx == InitTx /\ [][TxNext]_vars

(***************************************************************************)
(* generate_for_chunk: the text it stores, with and without the crew.      *)
(***************************************************************************)
StyleDirections == { <<>>, <<"x">>, <<"C", "l", "i", "n", "i", "c", "a", "l", " ", "x">>, <<"a", " ", "h", "o", "s", "p", "i", "t", "a", "l">> }

\* the keys of the sources handed to the crew
StyleAllowed == <<KeyNo(1), KeyNo(2)>>

StylePieces == { Cite(KeyNo(1)), Cite(KeyNo(2)), Cite(KeyNo(3)), <<"p", "a", "t", "i", "e", "n", "t", " ">>, <<"I", "c", "u", " ">> }

\* texts run_generation_with_crew returns: sanitized against the keys of
\* the sources
CrewTexts == { _sanitize_citations(t, StyleAllowed) : t \in TextsOf(StylePieces, MaxPieces) }

\* answers of the model to a prompt
ModelAnswers ==
    { <<"p", "a", "t", "i", "e", "n", "t", " ", "I", "C", "U", " ", "[", "S", "1", "]">>,
      <<" ", "p", "a", "t", "i", "e", "n", "t", " ", "[", "S", "1", "]", " ", "[", "S", "2", "]", " ", "i", "c", "u", "\n">>,
      <<"p", "a", "t", "i", "e", "n", "t", " ", "I", "C", "U">>,
      <<"p", "a", "t", "i", "e", "n", "t", " ", "I", "C", "U", " ", "[", "S", "x", "]">>,
      <<"p", "a", "t", "i", "e", "n", "t", " ", "I", "C", "U", " ", "[", "s", "1", "]">>,
      <<"p", "a", "t", "i", "e", "n", "t", " ", "I", "C", "U", " ", "[", "S", "9", "]">> }

StyleInit ==
    /\ directions \in StyleDirections
    /\ crew_text = None
    /\ style_text = <<>>
    /\ revised = None
    /\ generated_text = None
    /\ gpc = "start"

\* USE_CREWAI is set: text = run_generation_with_crew(...)
RunsCrew ==
    /\ gpc = "start"
    /\ \E t \in CrewTexts :
          /\ crew_text' = Some(t)
          /\ style_text' = t
    /\ gpc' = "style"
    /\ UNCHANGED <<directions, revised, generated_text>>
    /\ UNCHANGED outsideStyle

\* USE_CREWAI is not set: text = resp.choices[0].message.content.strip()
CallsOpenAI ==
    /\ gpc = "start"
    /\ \E a \in ModelAnswers : style_text' = strip(a)
    /\ gpc' = "style"
    /\ UNCHANGED <<directions, crew_text, revised, generated_text>>
    /\ UNCHANGED outsideStyle

\* enforce_industry_style returns the text as it is
KeepsStyle ==
    /\ gpc = "style"
    /\ LET industry == detect_target_industry(directions)
       IN  StyleKept(style_text, industry, MinHits(industry), Lexicon(industry))
    /\ gpc' = "save"
    /\ UNCHANGED <<directions, crew_text, style_text, revised, generated_text>>
    /\ UNCHANGED outsideStyle

\* enforce_industry_style asks for a rewrite and checks it
RewritesStyle ==
    /\ gpc = "style"
    /\ LET industry == detect_target_industry(directions)
       IN  ~StyleKept(style_text, industry, MinHits(industry), Lexicon(industry))
    /\ \E a \in ModelAnswers :
          /\ revised' = Some(strip(a))
          /\ style_text' = AfterRewrite(style_text, strip(a))
    /\ gpc' = "save"
    /\ UNCHANGED <<directions, crew_text, generated_text>>
    /\ UNCHANGED outsideStyle

\* gen = ChunkGeneration(..., generated_text=text, ...); commit
SavesGeneration ==
    /\ gpc = "save"
    /\ generated_text' = Some(style_text)
    /\ gpc' = "saved"
    /\ UNCHANGED <<directions, crew_text, style_text, revised>>
    /\ UNCHANGED outsideStyle

StyleNext ==
    \/ RunsCrew
    \/ CallsOpenAI
    \/ KeepsStyle
    \/ RewritesStyle
    \/ SavesGeneration

InitStyle == FirstIdle /\ SimIdle /\ WebIdle /\ LinkIdle /\ TxIdle /\ StyleInit

SpecStyle == InitStyle /\ [][StyleNext]_vars

(***************************************************************************)
(* What the properties speak of: citation tokens, their keys, paragraphs.  *)
(***************************************************************************)
\* positions i..j of t hold a citation token "[S<digits>]"
IsCitation(t, i, j) ==
    /\ 1 <= i /\ i + 3 <= j /\ j <= Len(t)
    /\ t[i] = "[" /\ t[i + 1] = "S" /\ t[j] = "]"
    /\ \A k \in (i + 2)..(j - 1) : t[k] \in Digits

Citations(t) == { c \in (1..Len(t)) \X (1..Len(t)) : IsCitation(t, c[1], c[2]) }

KeyAt(t, c) == SubSeq(t, c[1] + 1, c[2] - 1)

CitedKeys(t) == { KeyAt(t, c) : c \in Citations(t) }

\* t without the citation tokens whose key is not in A, every other character
\* kept in place
WithoutForeign(t, A) ==
    LET foreign == { k \in 1..Len(t) :
                        \E c \in Citations(t) :
                            c[1] <= k /\ k <= c[2] /\ KeyAt(t, c) \notin A }
        keep    == (1..Len(t)) \ foreign
        nth(n)  == CHOOSE k \in keep : Cardinality({ m \in keep : m < k }) = n - 1
    IN  [ n \in 1..Cardinality(keep) |-> t[nth(n)] ]

\* the lines of t
RECURSIVE LinesOf(_)
LinesOf(t) ==
    LET nl == { i \in 1..Len(t) : t[i] = "\n" }
    IN  IF nl = {} THEN <<t>>
        ELSE LET i == CHOOSE j \in nl : \A k \in nl : j <= k
             IN  <<SubSeq(t, 1, i - 1)>> \o LinesOf(SubSeq(t, i + 1, Len(t)))

IsBlank(line) == \A i \in 1..Len(line) : line[i] \in Whitespace

RECURSIVE JoinLines(_)
JoinLines(ls) ==
    IF Len(ls) = 1 THEN ls[1] ELSE ls[1] \o <<"\n">> \o JoinLines(Tail(ls))

\* the blank-line-delimited paragraphs of t: the maximal runs of lines that
\* are not blank
Paragraphs(t) ==
    LET ls   == LinesOf(t)
        n    == Len(ls)
        edge(i) == i < 1 \/ i > n \/ IsBlank(ls[i])
        runs == { r \in (1..n) \X (1..n) :
                    /\ r[1] <= r[2]
                    /\ \A i \in r[1]..r[2] : ~IsBlank(ls[i])
                    /\ edge(r[1] - 1) /\ edge(r[2] + 1) }
    IN  { JoinLines(SubSeq(ls, r[1], r[2])) : r \in runs }

HasPlaceholder(t) == \E i \in 1..Len(t) : PlaceholderAt(t, i)

\* t with every "[S#]" rewritten to "[k]"
RECURSIVE Repaired(_, _)
Repaired(t, k) ==
    IF t = <<>> THEN <<>>
    ELSE IF Len(t) >= 4 /\ SubSeq(t, 1, 4) = <<"[", "S", "#", "]">>
         THEN Cite(k) \o Repaired(SubSeq(t, 5, Len(t)), k)
         ELSE <<Head(t)>> \o Repaired(Tail(t), k)

\* the keys of the records of the catalog
CatalogKeys == { sources[i].key : i \in 1..Len(sources) } \ {NoKey}

\* the researcher has answered and the approved key list is set
SelectionDone == pc \in {"adapt", "edit"} \/ editor_calls > 0

(***************************************************************************)
(* Properties of run_generation_with_crew.                                 *)
(***************************************************************************)
\* C1: no foreign citations: every citation token of the returned text has
\* its key in the approved key list, whatever the adapter and the editor wrote.
NoForeignCitations ==
    outcome = "returned" => CitedKeys(result) \subseteq Range(selected_keys)

\* C2: full coverage: with a non-empty approved key list, every
\* blank-line-delimited paragraph of the returned text holds a citation token
\* whose key is approved.
FullCoverage ==
    (outcome = "returned" /\ selected_keys # <<>>) =>
        /\ Paragraphs(result) # {}
        /\ \A p \in Paragraphs(result) :
               CitedKeys(p) \cap Range(selected_keys) # {}

\* C3: only keys of the catalog passed to the call are approved, and only
\* such keys are cited in the returned text.
OnlyCatalogCitations ==
    /\ SelectionDone => Range(selected_keys) \subseteq CatalogKeys
    /\ outcome = "returned" => CitedKeys(result) \subseteq CatalogKeys

\* C4: the pipeline always completes: whichever collaborator calls raise, the
\* call ends by returning a text, never by raising.
PipelineAlwaysCompletes ==
    pc = "done" => outcome = "returned"

\* C5: when the adapter call raises, the adapted text is the empty string, the
\* editor is still run exactly once, its answer is enforced against the empty
\* adapted text, and the call does not end with the adapter's fault.
AdapterFaultRecovered ==
    adapter_failed =>
        /\ adapted_text = <<>>
        /\ pc \in {"edit", "done"}
        /\ pc = "edit" => (editor_calls = 0 /\ outcome = "running")
        /\ pc = "done" => editor_calls = 1
        /\ outcome = "returned" =>
               result = Enforce(strip(edited), <<>>, selected_keys)

\* the adapter raised, the editor answered and the call returned
AdapterFaultRecoveredWitness ==
    /\ adapter_failed
    /\ outcome = "returned"
    /\ editor_calls = 1
    /\ edited = <<"a", " ", "[", "S", "#", "]">>
    /\ selected_keys # <<>>

\* C6: when the editor returns empty text, the call returns the adapted text
\* filtered to the approved keys, whether the approved list is empty or not.
EmptyEditReturnsAdapted ==
    (outcome = "returned" /\ edited = <<>>) =>
        result = WithoutForeign(adapted_text, Range(selected_keys))

\* C7: when nothing is parsed from the researcher's answer, the approved list
\* is the keys of the first two keyed records of the catalog, in catalog
\* order (of the only one, if there is one); so it is empty only if no record
\* has a key, and it is [S1, S2] for the catalog [S1, S2, S3].
FallbackIsFirstTwoKeyed ==
    (SelectionDone /\ _parse_selected_keys(keys_raw) = <<>>) =>
        LET keyed == { i \in 1..Len(sources) : sources[i].key # NoKey }
            rank(i) == Cardinality({ j \in keyed : j < i })
            firstTwo == { i \in keyed : rank(i) < 2 }
        IN  /\ Len(selected_keys) = Cardinality(firstTwo)
            /\ \A i \in firstTwo : selected_keys[rank(i) + 1] = sources[i].key
            /\ keyed # {} => selected_keys # <<>>
            /\ sources = [ i \in 1..3 |-> [key |-> KeyNo(i)] ] =>
                   selected_keys = <<KeyNo(1), KeyNo(2)>>

\* the researcher's answer held no key and the catalog is [S1, S2, S3]
FallbackWitness ==
    /\ pc = "adapt"
    /\ keys_raw = <<"x">>
    /\ sources = [ i \in 1..3 |-> [key |-> KeyNo(i)] ]
    /\ selected_keys = <<KeyNo(1), KeyNo(2)>>

\* the catalog's first record has no key and the fallback skips it
FallbackSkipsKeylessWitness ==
    /\ pc = "adapt"
    /\ keys_raw = <<>>
    /\ sources = [ i \in 1..3 |-> [key |-> IF i = 1 THEN NoKey ELSE KeyNo(i)] ]
    /\ selected_keys = <<KeyNo(2), KeyNo(3)>>

\* the scenario of C8: "Sleep aids memory [S#]." with approved [S4]
PlaceholderScenario ==
    LET sleep == <<"S", "l", "e", "e", "p", " ", "a", "i", "d", "s", " ",
                   "m", "e", "m", "o", "r", "y", " ">>
    IN  Enforce(strip(sleep \o <<"[", "S", "#", "]", ".">>), <<>>, <<KeyNo(4)>>)
            = sleep \o <<"[", "S", "4", "]", ".">>

FilterDeletesExactlyForeign ==
    filtered # <<>> =>
        filtered[1] = WithoutForeign(filter_text, Range(filter_allowed))

\* an allowed token and the whitespace were kept, the other token deleted
FilterWitness ==
    /\ filtered # <<>>
    /\ filter_allowed = <<KeyNo(1)>>
    /\ filter_text = <<"[", "S", "1", "]", " ", "[", "S", "9", "]">>
    /\ filtered[1] = <<"[", "S", "1", "]", " ">>

\* positions i..j of t hold a bracketed S-token whose key is malformed: "[S",
\* then characters other than brackets that are not one or more digits alone,
\* then "]" ("[Sx]", "[S]", "[S1a]")
IsMalformed(t, i, j) ==
    /\ 1 <= i /\ i + 2 <= j /\ j <= Len(t)
    /\ t[i] = "[" /\ t[i + 1] = "S" /\ t[j] = "]"
    /\ \A k \in (i + 2)..(j - 1) : t[k] \notin {"[", "]"}
    /\ ~IsCitation(t, i, j)

Malformed(t) == { c \in (1..Len(t)) \X (1..Len(t)) : IsMalformed(t, c[1], c[2]) }

\* the positions of t inside a citation token whose key is not in A
ForeignPositions(t, A) ==
    { k \in 1..Len(t) :
        \E c \in Citations(t) : c[1] <= k /\ k <= c[2] /\ KeyAt(t, c) \notin A }

\* C11 as stated: tokens with a malformed key are treated as not allowed, and
\* none is left in the filtered text.
MalformedRemoved ==
    filtered # <<>> => Malformed(filtered[1]) = {}

\* C11, amended: the filter leaves every token with a malformed key in the
\* text, unchanged: it stands in the filtered text where the deletion of the
\* disallowed well-formed tokens before it has moved it.
MalformedKept ==
    filtered # <<>> =>
        \A c \in Malformed(filter_text) :
            LET d == Cardinality({ k \in ForeignPositions(filter_text, Range(filter_allowed)) :
                                      k < c[1] })
            IN  /\ c[2] - d <= Len(filtered[1])
                /\ SubSeq(filtered[1], c[1] - d, c[2] - d)
                       = SubSeq(filter_text, c[1], c[2])

\* "[S9][S]" filtered to the allowed key S1: the token of S9 is deleted, the
\* malformed "[S]" is kept
MalformedKeptWitness ==
    /\ filtered # <<>>
    /\ filter_allowed = <<KeyNo(1)>>
    /\ filter_text = <<"[", "S", "9", "]", "[", "S", "]">>
    /\ filtered[1] = <<"[", "S", "]">>

\* C10: idempotence: filtering the filtered text again, with the same allowed
\* keys, returns it unchanged.
FilterIdempotent ==
    Len(filtered) = 2 => filtered[2] = filtered[1]

(***************************************************************************)
(* Properties of extract_claims.                                           *)
(***************************************************************************)
\* the number of "#" a line starts with
Hashes(ln) == Cardinality({ i \in 1..Len(ln) : \A j \in 1..i : ln[j] = "#" })

\* ln is a heading line of the given level: that many "#", then whitespace
IsHeadingLine(ln, level) ==
    Hashes(ln) = level /\ Len(ln) > level /\ ln[level + 1] \in Whitespace

\* the title of a heading line
TitleOf(ln) == strip(SubSeq(ln, Hashes(ln) + 1, Len(ln)))

\* the paragraphs of t, as pairs <<first line, last line>>: the maximal runs
\* of lines that are neither blank nor a heading of level 1 or 2
ParagraphRuns(t) ==
    LET ls   == LinesOf(t)
        n    == Len(ls)
        body(i) == /\ 1 <= i /\ i <= n
                   /\ ~IsBlank(ls[i])
                   /\ ~IsHeadingLine(ls[i], 1) /\ ~IsHeadingLine(ls[i], 2)
    IN  { r \in (1..n) \X (1..n) :
            /\ r[1] <= r[2]
            /\ \A i \in r[1]..r[2] : body(i)
            /\ ~body(r[1] - 1) /\ ~body(r[2] + 1) }

\* the k-th of the runs rs, in document order
RunNo(rs, k) == CHOOSE r \in rs : Cardinality({ q \in rs : q[1] < r[1] }) = k - 1

\* the text of the paragraph r of t
RunText(t, r) == strip(JoinLines(SubSeq(LinesOf(t), r[1], r[2])))

\* where the first token of key k starts in p
FirstOccurrence(p, k) ==
    LET at == { c[1] : c \in { d \in Citations(p) : KeyAt(p, d) = k } }
    IN  CHOOSE i \in at : \A j \in at : i <= j

\* C12: extract_claims returns, in document order, exactly the paragraphs of
\* the document that hold a citation token; the keys of each are the keys of
\* its tokens, each once, in the order of their first occurrence, so never
\* empty.
ExtractsCitingParagraphs ==
    extracted =>
        LET citing == { r \in ParagraphRuns(md_text) :
                           CitedKeys(RunText(md_text, r)) # {} }
        IN  /\ Len(claims) = Cardinality(citing)
            /\ \A k \in 1..Len(claims) :
                  LET p  == RunText(md_text, RunNo(citing, k))
                      ks == claims[k].keys
                  IN  /\ claims[k].para = p
                      /\ ks # <<>>
                      /\ Range(ks) = CitedKeys(p)
                      /\ \A a, b \in 1..Len(ks) :
                            a < b => FirstOccurrence(p, ks[a]) < FirstOccurrence(p, ks[b])

\* a paragraph without a token, then one citing S2, S1 and S2 again
ExtractsCitingParagraphsWitness ==
    /\ extracted
    /\ md_text = <<"x", "\n", "\n",
                   "[", "S", "2", "]", " ", "[", "S", "1", "]", "[", "S", "2", "]", "\n">>
    /\ Len(paragraphs) = 2
    /\ Len(claims) = 1
    /\ claims[1].keys = <<KeyNo(2), KeyNo(1)>>

\* the example of C13: "# Intro" followed by "Neurons fire. [S1]"
IntroScenario ==
    LET intro == <<"I", "n", "t", "r", "o">>
        fire  == <<"N", "e", "u", "r", "o", "n", "s", " ", "f", "i", "r", "e", ".",
                   " ", "[", "S", "1", "]">>
    IN  extract_claims(<<"#", " ">> \o intro \o <<"\n">> \o fire)
            = <<[section |-> intro, para |-> fire, keys |-> <<KeyNo(1)>>]>>

\* the line of the last heading of the given level among the lines from..to
\* of ls, 0 if there is none
LastHeading(ls, level, from, to) ==
    LET hs == { i \in from..to : IsHeadingLine(ls[i], level) }
    IN  IF hs = {} THEN 0 ELSE CHOOSE i \in hs : \A j \in hs : j <= i

\* C13 as stated: the section path of a paragraph is "title1 > title2" of the
\* last level-1 heading before it and the last level-2 heading after that
\* one, title1 alone when no level-2 heading followed, and "ROOT" when no
\* heading precedes the paragraph; and the example yields one triple.
SectionPathAsStated ==
    /\ ~extracted => IntroScenario
    /\ extracted =>
          LET ls   == LinesOf(md_text)
              runs == ParagraphRuns(md_text)
          IN  /\ Len(paragraphs) = Cardinality(runs)
              /\ \A k \in 1..Len(paragraphs) :
                    LET s  == RunNo(runs, k)[1]
                        i1 == LastHeading(ls, 1, 1, s - 1)
                        i2 == LastHeading(ls, 2, i1 + 1, s - 1)
                        path == paragraphs[k].section
                    IN  /\ (i1 # 0 /\ i2 # 0) =>
                              path = TitleOf(ls[i1]) \o <<" ", ">", " ">> \o TitleOf(ls[i2])
                        /\ (i1 # 0 /\ i2 = 0) => path = TitleOf(ls[i1])
                        /\ (i1 = 0 /\ i2 = 0) => path = ROOT

\* C13, amended: the section path is made of the titles that are not empty
\* among the title of the last level-1 heading before the paragraph and the
\* title of the last level-2 heading after that one (after the start of the
\* document when no level-1 heading precedes), joined by " > "; it is "ROOT"
\* when there is no such title; and the example yields one triple.
SectionPathOfTitles ==
    /\ ~extracted => IntroScenario
    /\ extracted =>
          LET ls   == LinesOf(md_text)
              runs == ParagraphRuns(md_text)
          IN  /\ Len(paragraphs) = Cardinality(runs)
              /\ \A k \in 1..Len(paragraphs) :
                    LET s  == RunNo(runs, k)[1]
                        i1 == LastHeading(ls, 1, 1, s - 1)
                        i2 == LastHeading(ls, 2, i1 + 1, s - 1)
                        t1 == IF i1 = 0 THEN <<>> ELSE TitleOf(ls[i1])
                        t2 == IF i2 = 0 THEN <<>> ELSE TitleOf(ls[i2])
                        path == paragraphs[k].section
                    IN  /\ (t1 # <<>> /\ t2 # <<>>) => path = t1 \o <<" ", ">", " ">> \o t2
                        /\ (t1 # <<>> /\ t2 = <<>>) => path = t1
                        /\ (t1 = <<>> /\ t2 # <<>>) => path = t2
                        /\ (t1 = <<>> /\ t2 = <<>>) => path = ROOT

\* "# A", "## B", "# A" again, then a paragraph: its path is "A", the second
\* level-1 heading having cleared "B"
SectionPathWitness ==
    /\ extracted
    /\ md_text = <<"#", " ", "A", "\n", "#", "#", " ", "B", "\n",
                   "#", " ", "A", "\n", "a", " ", "[", "S", "1", "]", "\n">>
    /\ paragraphs = <<[section |-> <<"A">>, para |-> <<"a", " ", "[", "S", "1", "]">>]>>

\* a paragraph under "# A" and "## B": its path is "A > B"
SectionPathJoinedWitness ==
    /\ extracted
    /\ md_text = <<"#", " ", "A", "\n", "#", "#", " ", "B", "\n", "x", "\n">>
    /\ paragraphs = <<[section |-> <<"A", " ", ">", " ", "B">>, para |-> <<"x">>]>>

(***************************************************************************)
(* Properties of the ledger.                                               *)
(***************************************************************************)
\* a log_claims_from_markdown call has ended
LogEnded == op \in {"web", "cli"} /\ lpc = "idle"

\* a log_claims_from_markdown call has returned
LogReturned == LogEnded /\ fault = "none"

\* the rows the table has gained since the call started
Written == SubSeq(ledger.rows, Len(before.rows) + 1, Len(ledger.rows))

\* the paragraphs of t that hold a citation token
CitingRuns(t) == { r \in ParagraphRuns(t) : CitedKeys(RunText(t, r)) # {} }

\* the pairs of a citing paragraph of t and a key cited in it
ClaimPairs(t) ==
    UNION { { <<r, k>> : k \in CitedKeys(RunText(t, r)) } : r \in CitingRuns(t) }

\* the section path of the paragraph r of t: the titles that are not empty
\* of the headings in force, joined by " > ", or "ROOT"
PathOf(t, r) ==
    LET ls == LinesOf(t)
        i1 == LastHeading(ls, 1, 1, r[1] - 1)
        i2 == LastHeading(ls, 2, i1 + 1, r[1] - 1)
        t1 == IF i1 = 0 THEN <<>> ELSE TitleOf(ls[i1])
        t2 == IF i2 = 0 THEN <<>> ELSE TitleOf(ls[i2])
    IN  IF t1 # <<>> /\ t2 # <<>> THEN t1 \o <<" ", ">", " ">> \o t2
        ELSE IF t1 # <<>> THEN t1
        ELSE IF t2 # <<>> THEN t2
        ELSE ROOT

\* C14: the rows written by one log_claims_from_markdown call are one row
\* per pair of a claim paragraph and a key cited in it, with the paragraph as
\* claim_text, its section path as section and the key as source_key (so a
\* paragraph citing N keys yields N rows that differ in source_key only); in
\* every row "[source_key]" is a token of claim_text.
OneRowPerClaimAndKey ==
    LogReturned =>
        LET pairs == ClaimPairs(final_md)
            triple(pr) == <<PathOf(final_md, pr[1]), RunText(final_md, pr[1]), pr[2]>>
            rowsOf(v) == { i \in 1..Len(Written) :
                             <<Written[i].section, Written[i].claim_text,
                               Written[i].source_key>> = v }
        IN  /\ Len(Written) = Cardinality(pairs)
            /\ \A pr \in pairs :
                  Cardinality(rowsOf(triple(pr)))
                      = Cardinality({ q \in pairs : triple(q) = triple(pr) })
            /\ \A i \in 1..Len(Written) :
                  /\ Written[i].source_key \in CitedKeys(Written[i].claim_text)
                  /\ Written[i].project_id = Project

\* the paragraph citing S2, S1 and S2 again was logged: two rows, of S2 and S1
OneRowPerClaimAndKeyWitness ==
    /\ LogReturned
    /\ Len(Written) = 2
    /\ Written[1].claim_text = Written[2].claim_text
    /\ Written[1].section = ROOT /\ Written[2].section = ROOT
    /\ Written[1].source_key = KeyNo(2)
    /\ Written[2].source_key = KeyNo(1)

\* C15: log_claims_from_markdown returns the number of rows it appended; for
\* a document without a citation token it appends nothing, never reaches the
\* insertion (so nothing of the document makes it raise: it raises only when
\* ensure_schema does) and returns 0.
LogReturnsRowCount ==
    LogEnded =>
        /\ fault = "none" =>
              /\ ret # None
              /\ ret[1] = Len(ledger.rows) - Len(before.rows)
              /\ SubSeq(ledger.rows, 1, Len(before.rows)) = before.rows
        /\ fault # "none" => ret = None
        /\ CitedKeys(final_md) = {} =>
              /\ ledger.rows = before.rows
              /\ fault # "insert_rows"
              /\ fault = "none" => (ret = Some(0) /\ run_outcome = "completed")

\* a document without a token was logged: nothing appended, 0 returned
LogReturnsZeroWitness ==
    /\ LogReturned
    /\ final_md = <<"x", "\n">>
    /\ ret = Some(0)
    /\ ledger.rows = before.rows

\* a document was logged and the count of its two rows returned
LogReturnsRowCountWitness ==
    /\ LogReturned
    /\ ret = Some(2)
    /\ Len(ledger.rows) = Len(before.rows) + 2

\* C16: insert_rows is all or nothing: when it raises, whatever part of the
\* batch had been sent, the table holds none of the rows of the call; when it
\* returns, the table holds them all, after the rows it held.
InsertAllOrNothing ==
    (lpc = "idle" /\ op \in {"insert_rows", "web", "cli"}) =>
        /\ fault = "insert_rows" => ledger.rows = before.rows
        /\ fault = "none" => ledger.rows = before.rows \o batch

\* insert_rows raised between the two pages of a batch of page_size + 1 rows
InsertAllOrNothingWitness ==
    /\ lpc = "idle"
    /\ op = "insert_rows"
    /\ fault = "insert_rows"
    /\ Len(batch) = PageSize + 1
    /\ sent = PageSize
    /\ ledger.rows = before.rows

\* insert_rows returned after the two pages of a batch of page_size + 1 rows
InsertAllWitness ==
    /\ lpc = "idle"
    /\ op = "insert_rows"
    /\ fault = "none"
    /\ Len(batch) = PageSize + 1
    /\ Len(ledger.rows) = Len(before.rows) + PageSize + 1

\* the rows of the table are kept by a step, in place and unchanged
RowsKept ==
    /\ Len(ledger.rows) <= Len(ledger'.rows)
    /\ SubSeq(ledger'.rows, 1, Len(ledger.rows)) = ledger.rows

\* the rows of the logged document in the table
ProjectRows == SelectSeq(ledger.rows, LAMBDA r : r.project_id = Project)

\* a row without the time it was made at
Undated(r) == [r EXCEPT !.created_at = 0]

\* the table holds the rows of the document once for every call that logged it
LoggedEveryTime ==
    LET once == BuildRows(Project, final_md, sources_json, 0)
    IN  /\ Len(ProjectRows) = log_returns * Len(once)
        /\ \A i \in 1..Len(ProjectRows) :
              Undated(ProjectRows[i]) = once[((i - 1) % Len(once)) + 1]

\* insert_rows with an empty list leaves the database as it was
EmptyInsertChangesNothing ==
    (op = "insert_rows" /\ lpc = "idle" /\ batch = <<>>) =>
        (ledger = before /\ fault = "none")

\* C17: the ledger is append-only: no step of any sequence of ensure_schema,
\* insert_rows and log_claims_from_markdown calls changes or removes a row
\* (so the row count never decreases); insert_rows with an empty list changes
\* nothing; a document logged twice has its rows in the table twice.
LedgerAppendOnly ==
    /\ [][RowsKept]_vars
    /\ [](EmptyInsertChangesNothing /\ LoggedEveryTime)

\* the same document was logged twice and its two rows are there twice
LedgerAppendOnlyWitness ==
    /\ log_returns = 2
    /\ Len(ProjectRows) = 4
    /\ Undated(ProjectRows[1]) = Undated(ProjectRows[3])
    /\ ProjectRows[1].created_at # ProjectRows[3].created_at

\* a step in which ensure_schema returns, called directly or by
\* log_claims_from_markdown
EnsureSchemaReturns ==
    \/ calls' = calls + 1 /\ op' = "ensure_schema" /\ fault' = "none"
    \/ lpc = "ensure" /\ lpc' = "insert"

\* the table and its two indexes exist
SchemaComplete(db) == db.table /\ db.idx_project /\ db.idx_section

\* C18: ensure_schema is idempotent and not destructive: whatever the
\* database, when it returns the table and both indexes exist and the rows
\* are the rows there were; called on a database that has them it changes
\* nothing, so one call and any number of calls lead to the same state.
EnsureSchemaIdempotent ==
    [][EnsureSchemaReturns =>
          /\ SchemaComplete(ledger')
          /\ ledger'.rows = ledger.rows
          /\ SchemaComplete(ledger) => ledger' = ledger]_vars

\* ensure_schema was called twice in a row on a database that holds a row
EnsureSchemaIdempotentWitness ==
    /\ op = "ensure_schema"
    /\ calls = 2
    /\ fault = "none"
    /\ SchemaComplete(before)
    /\ ledger = before
    /\ ledger.rows # <<>>

\* ensure_schema created the table and the indexes of a database without them
EnsureSchemaCreatesWitness ==
    /\ op = "ensure_schema"
    /\ fault = "none"
    /\ before = Fresh
    /\ ledger = [Fresh EXCEPT !.table = TRUE, !.idx_project = TRUE, !.idx_section = TRUE]

\* C19: persistence faults are never dropped: when ensure_schema or
\* insert_rows raises in a ledger-logging step, the run that made the step,
\* web assemble flow or command-line runner, ends in failure.
PersistenceFaultsAreFatal ==
    (LogEnded /\ fault # "none") => run_outcome = "failed"

\* no abstract is available for the key: no item of sources.json has the
\* key, or the item's abstract is absent, null or empty
NoAbstract(key) ==
    \A i \in 1..Len(sources_json) :
        sources_json[i].key = Some(key) => sources_json[i].abstract \in {None, Some(<<>>)}

\* C20: the similarity score of a written row is null exactly when no
\* abstract is available for its key, and a number otherwise; a key without
\* an abstract raises nothing and has its row like any other.
ScoreNullIffNoAbstract ==
    LogReturned =>
        /\ \A i \in 1..Len(Written) :
              LET score == Written[i].similarity_score
              IN  /\ score = None <=> NoAbstract(Written[i].source_key)
                  /\ score # None =>
                        /\ Len(score) = 1
                        /\ score[1][1] \in Nat /\ score[1][2] \in Nat \ {0}
        /\ \A k \in CitedKeys(final_md) :
              \E i \in 1..Len(Written) : Written[i].source_key = k

\* a paragraph citing S2, missing from the catalog, and S1, which has an
\* abstract: the row of S2 has no score, the row of S1 has one
ScoreNullIffNoAbstractWitness ==
    /\ LogReturned
    /\ Len(Written) = 2
    /\ Written[1].source_key = KeyNo(2) /\ Written[1].similarity_score = None
    /\ Written[2].source_key = KeyNo(1) /\ Written[2].similarity_score = Some(<<1, 9>>)

(***************************************************************************)
(* Properties of similarity.                                               *)
(***************************************************************************)
\* the value v of a score lies between 0 and 1
InUnit(v) == v[1] >= 0 /\ v[2] > 0 /\ v[1] <= v[2]

\* C21: for every claim text and every non-empty abstract, similarity returns
\* a value between 0 and 1; the value is 1 when both texts are the same text,
\* non-empty after whitespace normalization; and it is the same when the
\* tokens of either text are reordered or their whitespace is changed.
SimilarityBounds ==
    \A i \in 1..Len(scores) :
        /\ (sim_b # None /\ sim_b[1] # <<>>) =>
              /\ scores[i] # None
              /\ InUnit(scores[i][1])
              /\ scores[i] = scores[1]
        /\ (i = Len(scores) /\ sim_b = Some(sim_a) /\ _norm(Some(sim_a)) # <<>>) =>
              scores[i] = Some(<<1, 1>>)

\* a score strictly between 0 and 1 was returned for a claim text and an
\* abstract, then again for the tokens in another order with other whitespace
SimilarityBoundsWitness ==
    /\ Len(scores) >= 2
    /\ scores[1] = Some(<<4, 5>>)
    /\ sim_a = <<"b", "\n", "a">>
    /\ sim_b = Some(<<"\n", "a", "b">>)

\* a text scored against itself
SimilaritySelfWitness ==
    /\ scores = <<Some(<<1, 1>>)>>
    /\ sim_a = <<"b", "\n", "a">>
    /\ sim_b = Some(sim_a)

(***************************************************************************)
(* Properties of the assemble route.                                       *)
(***************************************************************************)
\* the keys of the records of the items data that have one
KeyedRecords(data) == { data[i].key[1] : i \in { j \in 1..Len(data) : ~Falsy(data[j].key) } }

GeneratedWith(para) ==
    { g \in Range(latest_generation_map(generations)) :
        \E j \in 1..Len(extract_claims(g.generated_text)) :
            extract_claims(g.generated_text)[j].para = para }

\* the sources offered under the key k when the generation g was made
Offered(g, k) ==
    IF Falsy(g.sources) THEN {}
    ELSE { s \in Range(g.sources[1]) : s.key = Some(k) }

\* C23: within one assembled document no key denotes two sources: every row
\* built by write_artifacts_and_ledger carries the citation of the source
\* that was offered under its key when its claim text was generated, never
\* another chunk's and never an empty one.
RowCitesOfferedSource ==
    \A r \in Requests :
        assemble[r].pc \in {"insert", "returned"} =>
            \A i \in 1..Len(assemble[r].rows) :
                LET row == assemble[r].rows[i]
                IN  \A g \in GeneratedWith(row.claim_text) :
                        \A s \in Offered(g, row.source_key) :
                            /\ row.source_citation = Apa(s)
                            /\ row.source_citation # <<>>

\* C28: the rows logged by one write_artifacts_and_ledger call are extracted
\* from the document text and the source list that this same call assembled,
\* whatever another request does meanwhile.
RowsOfOwnArtifacts ==
    \A r \in Requests :
        assemble[r].pc \in {"insert", "returned"} =>
            assemble[r].rows = BuildRows(LedgerProjectId(Project), assemble[r].text,
                                         assemble[r].seen, r)

(***************************************************************************)
(* Properties of linking and stripping.                                    *)
(***************************************************************************)
\* C24: stripping a linked text gives what stripping the text itself gives:
\* strip_sources_in_text(link_sources_in_text(t, m)) =
\* strip_sources_in_text(t) for every text t and mapping m.
StripUndoesLink ==
    Len(stripped) >= 1 => stripped[1] = strip_sources_in_text(form_text)

\* C30: linking is stable under repeated saves: a text saved again as it
\* was stored is stored unchanged, each citation token followed by at most
\* one "(url)": link(link(t, m), m) = link(t, m).
LinkIdempotent ==
    \A i \in 2..Len(saved) : saved[i] = saved[i - 1]

(***************************************************************************)
(* Properties of the selection step.                                       *)
(***************************************************************************)
\* positions i..j of t hold a key S<digits> that stands as a word: no
\* letter, digit or underscore before or after it
IsKeyWord(t, i, j) ==
    /\ 1 <= i /\ i < j /\ j <= Len(t)
    /\ t[i] = "S"
    /\ \A k \in (i + 1)..j : t[k] \in Digits
    /\ i > 1 => t[i - 1] \notin WordChars
    /\ j < Len(t) => t[j + 1] \notin WordChars

KeyWords(t) == { w \in (1..Len(t)) \X (1..Len(t)) : IsKeyWord(t, w[1], w[2]) }

\* the keys at the places ws of t (places of words, or of bracketed tokens
\* with the brackets taken off), in the order of their first occurrence and
\* without duplicates, are the list ks
InFirstOccurrenceOrder(t, ws, keyOf(_), ks) ==
    LET first(k) == CHOOSE i \in { w[1] : w \in { v \in ws : keyOf(v) = k } } :
                        \A w \in { v \in ws : keyOf(v) = k } : i <= w[1]
    IN  /\ Range(ks) = { keyOf(w) : w \in ws }
        /\ \A a, b \in 1..Len(ks) : a < b => first(ks[a]) < first(ks[b])

\* C25 as stated: the approved key list is the keys of the bracketed tokens
\* [S<digits>] of the researcher's answer, in first-occurrence order without
\* duplicates, and the fallback is taken exactly when the answer holds no
\* bracketed token.
SelectionOfBracketedTokens ==
    pc = "adapt" =>
        LET tokens == Citations(keys_raw)
            keyOf(c) == KeyAt(keys_raw, c)
        IN  IF tokens = {} THEN selected_keys = FallbackKeys(sources)
            ELSE InFirstOccurrenceOrder(keys_raw, tokens, keyOf, selected_keys)

\* C25, amended: the approved key list is the keys S<digits> that stand as
\* words in the researcher's answer, bracketed or not, in first-occurrence
\* order without duplicates, and the fallback is taken exactly when the
\* answer holds no such word.
SelectionOfKeyWords ==
    pc = "adapt" =>
        LET words == KeyWords(keys_raw)
            keyOf(w) == SubSeq(keys_raw, w[1], w[2])
        IN  IF words = {} THEN selected_keys = FallbackKeys(sources)
            ELSE InFirstOccurrenceOrder(keys_raw, words, keyOf, selected_keys)

\* the answer "S2,[S1]S2": a bare key, a bracketed one, and the first again
SelectionOfKeyWordsWitness ==
    /\ pc = "adapt"
    /\ keys_raw = <<"S", "2", "[", "S", "1", "]", "S", "2">>
    /\ selected_keys = <<KeyNo(2), KeyNo(1)>>

\* the answer "xS1" holds no key word and the fallback is taken
SelectionFallbackWitness ==
    /\ pc = "adapt"
    /\ keys_raw = <<"x", "S", "1">>
    /\ sources = [ i \in 1..2 |-> [key |-> KeyNo(i)] ]
    /\ selected_keys = <<KeyNo(1), KeyNo(2)>>

(***************************************************************************)
(* Properties of extract_claims on headings of any level.                  *)
(***************************************************************************)
\* the levels of markdown headings
HeadingLevels == 1..6

\* C26: every heading line and every blank line ends the current paragraph:
\* no paragraph_text returned by extract_claims holds a heading line of any
\* level or a blank line; it is the lines of a paragraph of the document
\* joined by single newlines and trimmed, attached to the section path in
\* force where the paragraph starts.
NoHeadingInParagraph ==
    extracted =>
        \A k \in 1..Len(claims) :
            LET ls == LinesOf(claims[k].para)
            IN  /\ \A i \in 1..Len(ls) :
                      /\ ~IsBlank(ls[i])
                      /\ \A level \in HeadingLevels : ~IsHeadingLine(ls[i], level)
                /\ claims[k].para = strip(claims[k].para)
                /\ \E r \in ParagraphRuns(md_text) :
                      /\ claims[k].para = RunText(md_text, r)
                      /\ claims[k].section = PathOf(md_text, r)

(***************************************************************************)
(* Properties of concurrent calls on the ledger.                           *)
(***************************************************************************)
\* the rows of the table dated w
RowsDated(w) == SelectSeq(table.rows, LAMBDA r : r.created_at = w)

\* C27: whatever the interleaving of the concurrent calls, the ledger holds
\* every row of every call that returned, no row of a call that failed or
\* has not committed, and besides them only the rows it held before.
ConcurrentCallsKeepTheirRows ==
    /\ \A w \in Writers :
          RowsDated(w) = IF tx[w].pc = "returned" THEN tx[w].batch ELSE <<>>
    /\ SelectSeq(table.rows, LAMBDA r : r.created_at \notin Writers)
          \in {Fresh.rows, Populated.rows}

\* two calls had rows in flight at the same time; the first returned with a
\* batch of more than a page, the second failed after it had sent rows
ConcurrentCallsWitness ==
    /\ raced
    /\ tx[1].pc = "returned" /\ Len(tx[1].batch) > PageSize
    /\ tx[2].pc = "raised" /\ tx[2].sent > 0
    /\ RowsDated(1) = tx[1].batch

(***************************************************************************)
(* Properties of the style post-pass.                                      *)
(***************************************************************************)
\* C29: the text generate_for_chunk stores after a run of the crew cites
\* exactly the keys the text returned by the crew cites, and it is the text
\* returned by the crew whenever the rewrite holds no citation token.
RewriteKeepsCitations ==
    (gpc = "saved" /\ crew_text # None) =>
        /\ CitedKeys(generated_text[1]) = CitedKeys(crew_text[1])
        /\ (revised # None /\ Citations(revised[1]) = {}) => generated_text[1] = crew_text[1]

=============================================================================
